---- MODULE Spec2Model ----
(***************************************************************************)
(* krunkit: device-specification parsing, application of the parsed        *)
(* devices to a libkrun context, and the status/shutdown listener.         *)
(*                                                                         *)
(* Strings are sequences of one-character strings, so that splitting,      *)
(* joining and searching are computed as the code computes them.           *)
(***************************************************************************)
EXTENDS Integers, Sequences, FiniteSets, TLC

VARIABLES
    s,          \* parse_args: the argument string handed to the parser
    map,        \* parse_args: its result (NotRun before the call)
    s0,         \* the argument string as first given, before any reordering
    map0,       \* the result of parsing s0
    given,      \* the input handed to a builder or to an argument check
    returned,   \* what that call returned ([fn |-> "none"] before the call)
    pc,         \* main thread: the step it is about to take
    argv,       \* the command line: device specs, cpus, memory, restful URI
    ctx_args,   \* KrunContext.args: Args, as parsed from the command line
    ctx_id,     \* KrunContext.id (-1 before the context exists)
    device_index,   \* index of the next device of args.devices to apply
    calls,      \* the calls made into libkrun so far, each with its return
    result,     \* what main returned (NotRun while it runs)
    pidfile,    \* the pidfile: "not written", "written" or "removed"
    shutdown_eventfd,   \* the shutdown handle (-1 before it is obtained)
    applied,    \* indices of the devices krun_ctx_set was called on, in order
    spawned,    \* number of listener threads spawned
    listener,   \* listener thread: its position
    addr,       \* the address status_listener was entered with
    conns,      \* connections accepted so far
    conn,       \* the last connection handled
    shutdown_writes,    \* the writes made to the shutdown handle, in order
    running,    \* Compositor.running, the flag behind the mutex
    threads,    \* the compositor threads spawned, each with its position
    start_result    \* what the last call of Compositor::start did

parse_vars == <<s, map, s0, map0, given, returned>>

main_vars == <<pc, argv, ctx_args, ctx_id, device_index, calls, result, pidfile, shutdown_eventfd,
               applied, spawned>>

listener_vars == <<listener, addr, conns, conn, shutdown_writes>>

compositor_vars == <<running, threads, start_result>>

vars == <<s, map, s0, map0, given, returned, pc, argv, ctx_args, ctx_id, device_index, calls, result, pidfile,
          shutdown_eventfd, applied, spawned, listener, addr, conns, conn, shutdown_writes,
          running, threads, start_result>>

(***************************************************************************)
(* Bounds                                                                  *)
(***************************************************************************)
\* longest argument string drawn for the key-value parser
MaxArgLen == 6

\* characters the argument strings are drawn from
ArgChars == {"a", "b", "=", ","}

(***************************************************************************)
(* String helpers (Rust std)                                               *)
(***************************************************************************)
\* index of the first occurrence of c in str, 0 when there is none
find(str, c) ==
    IF \E i \in 1..Len(str) : str[i] = c
    THEN CHOOSE i \in 1..Len(str) : str[i] = c /\ \A j \in 1..(i - 1) : str[j] # c
    ELSE 0

\* str.split(c): always yields at least one piece; "" splits to <<"">>
RECURSIVE split(_, _)
split(str, c) ==
    LET i == find(str, c)
    IN  IF i = 0 THEN <<str>>
        ELSE <<SubSeq(str, 1, i - 1)>> \o split(SubSeq(str, i + 1, Len(str)), c)

\* list.join(c)
RECURSIVE join(_, _)
join(list, c) ==
    IF list = <<>> THEN <<>>
    ELSE IF Len(list) = 1 THEN list[1]
    ELSE list[1] \o <<c>> \o join(Tail(list), c)

(***************************************************************************)
(* Results                                                                 *)
(***************************************************************************)
NotRun == [ok |-> FALSE, err |-> "not run", arg |-> <<>>, val |-> <<>>]

Ok(v) == [ok |-> TRUE, err |-> "", arg |-> <<>>, val |-> v]

\* an error with its message kind and the text the message names
Err(e, a) == [ok |-> FALSE, err |-> e, arg |-> a, val |-> <<>>]

(***************************************************************************)
(* HashMap<String, String>                                                 *)
(***************************************************************************)
HashMap_new == [k \in {} |-> <<>>]

contains_key(m, k) == k \in DOMAIN m

\* HashMap::insert: the new map and the previous value, if any
insert(m, k, v) ==
    [map |-> [x \in (DOMAIN m) \cup {k} |-> IF x = k THEN v ELSE m[x]],
     res_is_some |-> k \in DOMAIN m]

remove(m, k) == [x \in (DOMAIN m) \ {k} |-> m[x]]

(***************************************************************************)
(* cmdline.rs: parse_args                                                  *)
(***************************************************************************)
\* the value of one argument: match arg_parts.len() { 1 => "", 2 => parts[1], _ => Err }
arg_val_accepting_extra_parts(arg, arg_parts) ==
    IF Len(arg_parts) = 1 THEN Ok(<<>>)
    ELSE Ok(join(Tail(arg_parts), "="))

arg_val(arg, arg_parts) ==
    IF Len(arg_parts) = 1 THEN Ok(<<>>)
    ELSE IF Len(arg_parts) = 2 THEN Ok(arg_parts[2])
    ELSE Err("invalid argument format", arg)

\* let res = map.insert(key, val); if res.is_some() { return Err(..) }
insert_once_overwriting(m, arg, key, val) ==
    Ok(insert(m, key, val).map)

insert_once(m, arg, key, val) ==
    LET r == insert(m, key, val)
    IN  IF r.res_is_some THEN Err("is only expected once", arg)
        ELSE Ok(r.map)

\* the body of the loop over the comma-separated arguments
RECURSIVE parse_args_loop(_, _)
parse_args_loop(list, m) ==
    IF list = <<>> THEN Ok(m)
    ELSE LET arg == Head(list)
             arg_parts == split(arg, "=")
             key == arg_parts[1]
             val == arg_val(arg, arg_parts)
         IN  IF ~val.ok THEN val
             ELSE LET r == insert_once(m, arg, key, val.val)
                  IN  IF ~r.ok THEN r
                      ELSE parse_args_loop(Tail(list), r.val)

\* a parser that takes the first token for a label and skips it
parse_args_skipping_first(str) == parse_args_loop(Tail(split(str, ",")), HashMap_new)

parse_args(str) == parse_args_loop(split(str, ","), HashMap_new)

(***************************************************************************)
(* String literals of the source                                           *)
(***************************************************************************)
S_virtio_blk == <<"v", "i", "r", "t", "i", "o", "-", "b", "l", "k">>

S_virtio_rng == <<"v", "i", "r", "t", "i", "o", "-", "r", "n", "g">>

S_virtio_serial == <<"v", "i", "r", "t", "i", "o", "-", "s", "e", "r", "i", "a", "l">>

S_virtio_vsock == <<"v", "i", "r", "t", "i", "o", "-", "v", "s", "o", "c", "k">>

S_virtio_net == <<"v", "i", "r", "t", "i", "o", "-", "n", "e", "t">>

S_virtio_fs == <<"v", "i", "r", "t", "i", "o", "-", "f", "s">>

S_virtio_gpu == <<"v", "i", "r", "t", "i", "o", "-", "g", "p", "u">>

S_virtio_input == <<"v", "i", "r", "t", "i", "o", "-", "i", "n", "p", "u", "t">>

S_path == <<"p", "a", "t", "h">>

S_format == <<"f", "o", "r", "m", "a", "t">>

S_raw == <<"r", "a", "w">>

S_qcow2 == <<"q", "c", "o", "w", "2">>

S_logFilePath == <<"l", "o", "g", "F", "i", "l", "e", "P", "a", "t", "h">>

S_port == <<"p", "o", "r", "t">>

S_socketURL == <<"s", "o", "c", "k", "e", "t", "U", "R", "L">>

S_listen == <<"l", "i", "s", "t", "e", "n">>

S_mac == <<"m", "a", "c">>

S_type == <<"t", "y", "p", "e">>

S_fd == <<"f", "d">>

S_offloading == <<"o", "f", "f", "l", "o", "a", "d", "i", "n", "g">>

S_vfkitMagic == <<"v", "f", "k", "i", "t", "M", "a", "g", "i", "c">>

S_sharedDir == <<"s", "h", "a", "r", "e", "d", "D", "i", "r">>

S_mountTag == <<"m", "o", "u", "n", "t", "T", "a", "g">>

S_width == <<"w", "i", "d", "t", "h">>

S_height == <<"h", "e", "i", "g", "h", "t">>

S_keyboard == <<"k", "e", "y", "b", "o", "a", "r", "d">>

S_pointing == <<"p", "o", "i", "n", "t", "i", "n", "g">>

S_true == <<"t", "r", "u", "e">>

S_on == <<"o", "n">>

S_false == <<"f", "a", "l", "s", "e">>

S_off == <<"o", "f", "f">>

S_disk == <<"d", "i", "s", "k">>

S_root == <<"r", "o", "o", "t">>

SOCK_TYPE_UNIX_SOCKET_PATH == <<"u", "n", "i", "x", "S", "o", "c", "k", "e", "t", "P", "a", "t", "h">>

SOCK_TYPE_UNIXGRAM == <<"u", "n", "i", "x", "g", "r", "a", "m">>

SOCK_TYPE_UNIXSTREAM == <<"u", "n", "i", "x", "s", "t", "r", "e", "a", "m">>

(***************************************************************************)
(* cmdline.rs: check_required_args, check_unknown_args, parse_boolean      *)
(***************************************************************************)
\* the first required key that is missing fails the check
check_required_args_last_missing(args, label, required) ==
    LET missing == {k \in 1..Len(required) : ~contains_key(args, required[k])}
    IN  IF missing = {}
        THEN Ok(<<>>)
        ELSE Err("is missing argument",
                 required[CHOOSE k \in missing : \A j \in missing : j <= k])

RECURSIVE check_required_args(_, _, _)
check_required_args(args, label, required) ==
    IF required = <<>> THEN Ok(<<>>)
    ELSE IF ~contains_key(args, Head(required))
         THEN Err("is missing argument", Head(required))
         ELSE check_required_args(args, label, Tail(required))

\* every remaining key=value pair is listed in the one error (in HashMap
\* iteration order, which is unspecified: the pairs are kept as a set)
check_unknown_args_listing_one(args, label) ==
    IF DOMAIN args # {}
    THEN Err("unknown arguments",
             {(CHOOSE k \in DOMAIN args : TRUE) \o <<"=">> \o args[CHOOSE k \in DOMAIN args : TRUE]})
    ELSE Ok(<<>>)

check_unknown_args(args, label) ==
    IF DOMAIN args # {}
    THEN Err("unknown arguments", {k \o <<"=">> \o args[k] : k \in DOMAIN args})
    ELSE Ok(<<>>)

parse_boolean(value) ==
    IF value = S_true \/ value = S_on THEN Ok(TRUE)
    ELSE IF value = S_false \/ value = S_off THEN Ok(FALSE)
    ELSE Err("invalid boolean value", value)

(***************************************************************************)
(* Rust std conversions used by the builders                               *)
(***************************************************************************)
Upper == <<"A","B","C","D","E","F","G","H","I","J","K","L","M",
           "N","O","P","Q","R","S","T","U","V","W","X","Y","Z">>

Lower == <<"a","b","c","d","e","f","g","h","i","j","k","l","m",
           "n","o","p","q","r","s","t","u","v","w","x","y","z">>

\* str::to_lowercase on ASCII text
to_lowercase(str) ==
    [i \in 1..Len(str) |->
        IF \E k \in 1..26 : Upper[k] = str[i]
        THEN Lower[CHOOSE k \in 1..26 : Upper[k] = str[i]]
        ELSE str[i]]

Digits == <<"0","1","2","3","4","5","6","7","8","9">>

is_digit(c) == \E k \in 1..10 : Digits[k] = c

to_digit(c) == (CHOOSE k \in 1..10 : Digits[k] = c) - 1

HexDigits == <<"0","1","2","3","4","5","6","7","8","9","a","b","c","d","e","f">>

is_hex_digit(c) == \E k \in 1..16 : HexDigits[k] = to_lowercase(<<c>>)[1]

to_hex_digit(c) == (CHOOSE k \in 1..16 : HexDigits[k] = to_lowercase(<<c>>)[1]) - 1

\* an unsigned 32-bit value is kept as two 16-bit halves: hi * 65536 + lo
U16_LIMIT == 65536

u32(hi, lo) == [hi |-> hi, lo |-> lo]

\* the digits of an unsigned decimal number, accumulated with overflow check
RECURSIVE u32_digits(_, _)
u32_digits(str, acc) ==
    IF str = <<>> THEN Ok(acc)
    ELSE IF ~is_digit(Head(str)) THEN Err("InvalidDigit", str)
    ELSE LET lo == acc.lo * 10 + to_digit(Head(str))
             hi == acc.hi * 10 + (lo \div U16_LIMIT)
         IN  IF hi >= U16_LIMIT THEN Err("PosOverflow", str)
             ELSE u32_digits(Tail(str), u32(hi, lo % U16_LIMIT))

\* u32::from_str: an optional '+', then one or more decimal digits
u32_from_str_truncating(str) ==
    LET r == IF str = <<>> THEN Err("Empty", str)
             ELSE IF str = <<"+">> \/ str = <<"-">> THEN Err("InvalidDigit", str)
             ELSE IF Head(str) = "+" THEN u32_digits(Tail(str), u32(0, 0))
             ELSE u32_digits(str, u32(0, 0))
    IN  IF r.ok THEN Ok(u32(0, r.val.lo)) ELSE r

u32_from_str(str) ==
    IF str = <<>> THEN Err("Empty", str)
    ELSE IF str = <<"+">> \/ str = <<"-">> THEN Err("InvalidDigit", str)
    ELSE IF Head(str) = "+" THEN u32_digits(Tail(str), u32(0, 0))
    ELSE u32_digits(str, u32(0, 0))

\* the magnitude of a signed 32-bit number, at most limit_hi * 65536 + limit_lo
i32_magnitude(str, limit_hi, limit_lo, overflow) ==
    LET r == u32_digits(str, u32(0, 0))
    IN  IF ~r.ok THEN (IF r.err = "PosOverflow" THEN Err(overflow, str) ELSE r)
        ELSE IF r.val.hi > limit_hi \/ (r.val.hi = limit_hi /\ r.val.lo > limit_lo)
             THEN Err(overflow, str)
             ELSE r

I32_HI == 32767

I32_LO == 65535

\* i32::from_str (RawFd): an optional sign, then one or more decimal digits
i32_from_str(str) ==
    IF str = <<>> THEN Err("Empty", str)
    ELSE IF str = <<"+">> \/ str = <<"-">> THEN Err("InvalidDigit", str)
    ELSE IF Head(str) = "+"
         THEN LET r == i32_magnitude(Tail(str), I32_HI, I32_LO, "PosOverflow")
              IN  IF r.ok THEN Ok(r.val.hi * U16_LIMIT + r.val.lo) ELSE r
    ELSE IF Head(str) = "-"
         THEN LET r == i32_magnitude(Tail(str), I32_HI + 1, 0, "NegOverflow")
              IN  IF ~r.ok THEN r
                  ELSE IF r.val.hi = I32_HI + 1 THEN Ok(-(I32_HI * U16_LIMIT) - U16_LIMIT)
                  ELSE Ok(-(r.val.hi * U16_LIMIT + r.val.lo))
    ELSE LET r == i32_magnitude(str, I32_HI, I32_LO, "PosOverflow")
         IN  IF r.ok THEN Ok(r.val.hi * U16_LIMIT + r.val.lo) ELSE r

\* u8::from_str_radix(byte, 16): an optional '+', then hex digits, at most 255
RECURSIVE u8_hex_digits(_, _)
u8_hex_digits(str, acc) ==
    IF str = <<>> THEN Ok(acc)
    ELSE IF ~is_hex_digit(Head(str)) THEN Err("InvalidDigit", str)
    ELSE LET v == acc * 16 + to_hex_digit(Head(str))
         IN  IF v > 255 THEN Err("PosOverflow", str) ELSE u8_hex_digits(Tail(str), v)

u8_from_str_radix16(str) ==
    IF str = <<>> THEN Err("Empty", str)
    ELSE IF str = <<"+">> \/ str = <<"-">> THEN Err("InvalidDigit", str)
    ELSE IF Head(str) = "+" THEN u8_hex_digits(Tail(str), 0)
    ELSE u8_hex_digits(str, 0)

\* input.split(|c| c == ':' || c == '-')
RECURSIVE split_mac(_)
split_mac(str) ==
    LET P == {i \in 1..Len(str) : str[i] = ":" \/ str[i] = "-"}
    IN  IF P = {} THEN <<str>>
        ELSE LET i == CHOOSE i \in P : \A j \in P : i <= j
             IN  <<SubSeq(str, 1, i - 1)>> \o split_mac(SubSeq(str, i + 1, Len(str)))

\* MacAddress::from_str: six hexadecimal bytes separated by ':' or '-'
RECURSIVE mac_bytes(_, _)
mac_bytes(parts, array) ==
    IF parts = <<>> THEN
        IF Len(array) # 6 THEN Err("InvalidLength", <<>>) ELSE Ok(array)
    ELSE IF Len(array) = 6 THEN Err("InvalidLength", <<>>)
    ELSE LET b == u8_from_str_radix16(Head(parts))
         IN  IF ~b.ok THEN Err("InvalidDigit", Head(parts))
             ELSE mac_bytes(Tail(parts), Append(array, b.val))

MacAddress_from_str(str) == mac_bytes(split_mac(str), <<>>)

\* PathBuf::from_str keeps the text as it is and cannot fail
PathBuf_from_str(str) == Ok(str)

(***************************************************************************)
(* virtio.rs: the device configurations and their builders                 *)
(***************************************************************************)
\* F(v), with v evaluated once, before F is entered
Let(v, F(_)) == CHOOSE r \in {F(x) : x \in {v}} : TRUE

None == [some |-> FALSE, val |-> <<>>]

Some(v) == [some |-> TRUE, val |-> v]

\* HashMap::remove as used by the builders: the value, if the key was there
take(args, k) == IF contains_key(args, k) THEN Some(args[k]) ELSE None

\* DiskImageFormat::from_str
DiskImageFormat_from_str_case_sensitive(str) ==
    IF str = S_raw THEN Ok("Raw")
    ELSE IF str = S_qcow2 THEN Ok("Qcow2")
    ELSE Err("unsupported disk image format", str)

DiskImageFormat_from_str(str) ==
    IF to_lowercase(str) = S_raw THEN Ok("Raw")
    ELSE IF to_lowercase(str) = S_qcow2 THEN Ok("Qcow2")
    ELSE Err("unsupported disk image format", str)

\* BlkConfig::from_str
BlkConfig_from_str(str) ==
    Let(parse_args(str), LAMBDA parsed :
    IF ~parsed.ok THEN parsed ELSE
    LET args == parsed.val
        req == check_required_args(args, S_virtio_blk, <<S_path>>)
    IN  IF ~req.ok THEN req ELSE
    LET path == PathBuf_from_str(args[S_path])
        args1 == remove(args, S_path)
        f == take(args1, S_format)
        format == IF f.some THEN DiskImageFormat_from_str(f.val) ELSE Ok("Raw")
        args2 == remove(args1, S_format)
    IN  IF ~path.ok THEN path
        ELSE IF ~format.ok THEN format
        ELSE IF ~check_unknown_args(args2, S_virtio_blk).ok
             THEN check_unknown_args(args2, S_virtio_blk)
        ELSE Ok([kind |-> "Blk", path |-> path.val, format |-> format.val]))

\* SerialConfig::from_str
SerialConfig_from_str(str) ==
    Let(parse_args(str), LAMBDA parsed :
    IF ~parsed.ok THEN parsed ELSE
    LET args == parsed.val
        req == check_required_args(args, S_virtio_serial, <<S_logFilePath>>)
    IN  IF ~req.ok THEN req ELSE
    LET log_file_path == args[S_logFilePath]
        args1 == remove(args, S_logFilePath)
        unknown == check_unknown_args(args1, S_virtio_serial)
    IN  IF ~unknown.ok THEN unknown
        ELSE Ok([kind |-> "Serial", log_file_path |-> PathBuf_from_str(log_file_path).val]))

\* VsockAction::from_str
VsockAction_from_str(str) ==
    IF to_lowercase(str) = S_listen THEN Ok("Listen")
    ELSE Err("invalid vsock action", str)

\* VsockConfig::from_str
VsockConfig_from_str(str) ==
    Let(parse_args(str), LAMBDA parsed :
    IF ~parsed.ok THEN parsed ELSE
    LET args == parsed.val
        req == check_required_args(args, S_virtio_vsock, <<S_port, S_socketURL>>)
    IN  IF ~req.ok THEN req ELSE
    LET port == u32_from_str(args[S_port])
        args1 == remove(args, S_port)
        socket_url == PathBuf_from_str(args1[S_socketURL])
        args2 == remove(args1, S_socketURL)
        v == take(args2, S_listen)
        args3 == remove(args2, S_listen)
        unknown == check_unknown_args(args3, S_virtio_vsock)
    IN  IF ~port.ok THEN Err("port argument invalid", args[S_port])
        ELSE IF ~socket_url.ok THEN socket_url
        ELSE IF v.some /\ v.val # <<>>
             THEN Err("unexpected value for virtio-vsock argument", v.val)
        ELSE IF v.some /\ ~VsockAction_from_str(S_listen).ok
             THEN VsockAction_from_str(S_listen)
        ELSE IF ~unknown.ok THEN unknown
        ELSE Ok([kind |-> "Vsock", port |-> port.val, socket_url |-> socket_url.val,
                 action |-> "Listen"]))

\* SocketConfig::default()
SocketConfig_default_offloading ==
    [path |-> None, fd |-> None, offloading |-> TRUE, send_vfkit_magic |-> FALSE]

SocketConfig_default ==
    [path |-> None, fd |-> None, offloading |-> FALSE, send_vfkit_magic |-> FALSE]

\* both a file descriptor and a path were given
fd_and_path_allowed(fd, path) == FALSE

fd_and_path(fd, path) == fd.some /\ path.some

\* the socket types that take the vfkitMagic argument
supports_vfkit_magic_always(socket_type) == TRUE

supports_vfkit_magic(socket_type) == socket_type = "UnixGram"

\* both type and the legacy unixSocketPath were given
type_and_legacy_allowed(socket_type, legacy) == FALSE

type_and_legacy(socket_type, legacy) == socket_type.some /\ legacy.some

\* parse_socket_config: the socket type, the socket configuration and the
\* arguments left after its keys were removed
parse_socket_config(socket_type_str, args) ==
    IF socket_type_str # SOCK_TYPE_UNIXGRAM /\ socket_type_str # SOCK_TYPE_UNIXSTREAM
    THEN Err("virtio-net unsupported type input", socket_type_str) ELSE
    LET socket_type == IF socket_type_str = SOCK_TYPE_UNIXGRAM THEN "UnixGram"
                       ELSE "UnixStream"
        p == take(args, S_path)
        path == IF p.some THEN Some(PathBuf_from_str(p.val).val) ELSE None
        args1 == remove(args, S_path)
        f == take(args1, S_fd)
        fd == IF f.some THEN i32_from_str(f.val) ELSE Ok(<<>>)
        args2 == remove(args1, S_fd)
        o == take(args2, S_offloading)
        offloading == IF o.some THEN parse_boolean(o.val)
                      ELSE Ok(SocketConfig_default.offloading)
        args3 == remove(args2, S_offloading)
        m == take(args3, S_vfkitMagic)
        magic == IF m.some THEN parse_boolean(m.val)
                 ELSE Ok(SocketConfig_default.send_vfkit_magic)
        args4 == remove(args3, S_vfkitMagic)
    IN  IF ~fd.ok THEN Err("virtio-net unable to convert fd value", f.val)
        ELSE IF fd_and_path(f, path)
             THEN Err("virtio-net path and fd are mutually exclusive", <<>>)
        ELSE IF ~offloading.ok THEN offloading
        ELSE IF m.some /\ ~supports_vfkit_magic(socket_type)
             THEN Err("virtio-net only type=unixgram supports the vfkitMagic argument", <<>>)
        ELSE IF ~magic.ok THEN magic
        ELSE Ok([socket_type |-> socket_type,
                 socket_config |-> [path |-> path,
                                    fd |-> IF f.some THEN Some(fd.val) ELSE None,
                                    offloading |-> offloading.val,
                                    send_vfkit_magic |-> magic.val],
                 args |-> args4])

\* NetConfig::from_str
NetConfig_from_str(str) ==
    Let(parse_args(str), LAMBDA parsed :
    IF ~parsed.ok THEN parsed ELSE
    LET args == parsed.val
        req == check_required_args(args, S_virtio_net, <<S_mac>>)
    IN  IF ~req.ok THEN req ELSE
    LET legacy == take(args, SOCK_TYPE_UNIX_SOCKET_PATH)
        args1 == remove(args, SOCK_TYPE_UNIX_SOCKET_PATH)
        t == take(args1, S_type)
        args2 == remove(args1, S_type)
    IN  IF type_and_legacy(t, legacy)
        THEN Err("virtio-net type and unixSocketPath are mutually exclusive", <<>>) ELSE
    LET typed == IF t.some THEN parse_socket_config(t.val, args2)
                 ELSE Ok([socket_type |-> "UnixGram",
                          socket_config |-> [path |-> Some(PathBuf_from_str(legacy.val).val),
                                             fd |-> None,
                                             offloading |-> TRUE,
                                             send_vfkit_magic |-> TRUE],
                          args |-> args2])
    IN  IF ~typed.ok THEN typed
        ELSE IF ~t.some /\ ~legacy.some
             THEN Err("virtio-net device is missing type or unixSocketPath", <<>>) ELSE
    LET args3 == typed.val.args
        mac == MacAddress_from_str(args3[S_mac])
        args4 == remove(args3, S_mac)
        unknown == check_unknown_args(args4, S_virtio_net)
    IN  IF ~mac.ok THEN Err("virtio-net unable to parse address from mac argument", mac.arg)
        ELSE IF ~unknown.ok THEN unknown
        ELSE Ok([kind |-> "Net", socket_type |-> typed.val.socket_type,
                 socket_config |-> typed.val.socket_config, mac_address |-> mac.val]))

\* FsConfig::from_str
FsConfig_from_str(str) ==
    Let(parse_args(str), LAMBDA parsed :
    IF ~parsed.ok THEN parsed ELSE
    LET args == parsed.val
        req == check_required_args(args, S_virtio_fs, <<S_sharedDir, S_mountTag>>)
    IN  IF ~req.ok THEN req ELSE
    LET shared_dir == PathBuf_from_str(args[S_sharedDir])
        args1 == remove(args, S_sharedDir)
        mount_tag == PathBuf_from_str(args1[S_mountTag])
        args2 == remove(args1, S_mountTag)
        unknown == check_unknown_args(args2, S_virtio_fs)
    IN  IF ~shared_dir.ok THEN shared_dir
        ELSE IF ~mount_tag.ok THEN mount_tag
        ELSE IF ~unknown.ok THEN unknown
        ELSE Ok([kind |-> "Fs", shared_dir |-> shared_dir.val, mount_tag |-> mount_tag.val]))

\* GpuConfig::from_str
GpuConfig_from_str(str) ==
    Let(parse_args(str), LAMBDA parsed :
    IF ~parsed.ok THEN parsed ELSE
    LET args == parsed.val
        req == check_required_args(args, S_virtio_gpu, <<S_height, S_width>>)
    IN  IF ~req.ok THEN req ELSE
    LET width == u32_from_str(args[S_width])
        args1 == remove(args, S_width)
        height == u32_from_str(args1[S_height])
        args2 == remove(args1, S_height)
        unknown == check_unknown_args(args2, S_virtio_gpu)
    IN  IF ~width.ok THEN Err("GPU width argument out of range", args[S_width])
        ELSE IF ~height.ok THEN Err("GPU height argument out of range", args[S_height])
        ELSE IF ~unknown.ok THEN unknown
        ELSE Ok([kind |-> "Gpu", width |-> width.val, height |-> height.val]))

\* InputConfig::from_str
InputConfig_from_str_ignoring_value(str) ==
    Let(parse_args(str), LAMBDA parsed :
    IF ~parsed.ok THEN parsed ELSE
    LET args == parsed.val
    IN  IF Cardinality(DOMAIN args) # 1 THEN Err("invalid virtio-input config", str) ELSE
    LET key == CHOOSE k \in DOMAIN args : TRUE
    IN  IF key = S_keyboard THEN Ok([kind |-> "Input", input |-> "Keyboard"])
        ELSE IF key = S_pointing THEN Ok([kind |-> "Input", input |-> "Pointing"])
        ELSE Err("unknown virtio-input argument", key))

InputConfig_from_str(str) ==
    Let(parse_args(str), LAMBDA parsed :
    IF ~parsed.ok THEN parsed ELSE
    LET args == parsed.val
    IN  IF Cardinality(DOMAIN args) # 1 THEN Err("invalid virtio-input config", str) ELSE
    LET key == CHOOSE k \in DOMAIN args : TRUE
        value == args[key]
    IN  IF value # <<>> THEN Err("unexpected value for virtio-input argument", key)
        ELSE IF key = S_keyboard THEN Ok([kind |-> "Input", input |-> "Keyboard"])
        ELSE IF key = S_pointing THEN Ok([kind |-> "Input", input |-> "Pointing"])
        ELSE Err("unknown virtio-input argument", key))

\* VirtioDeviceConfig::from_str: the label before the first comma selects the
\* builder, which gets the rest of the string
VirtioDeviceConfig_from_str_any_case(str) ==
    Let(split(str, ","), LAMBDA args :
    IF args = <<>> THEN Err("no virtio device config found", <<>>) ELSE
    LET rest == join(Tail(args), ",")
        label == to_lowercase(args[1])
    IN  IF label = S_virtio_blk THEN BlkConfig_from_str(rest)
        ELSE IF label = S_virtio_rng THEN Ok([kind |-> "Rng"])
        ELSE IF label = S_virtio_serial THEN SerialConfig_from_str(rest)
        ELSE IF label = S_virtio_vsock THEN VsockConfig_from_str(rest)
        ELSE IF label = S_virtio_net THEN NetConfig_from_str(rest)
        ELSE IF label = S_virtio_fs THEN FsConfig_from_str(rest)
        ELSE IF label = S_virtio_gpu THEN GpuConfig_from_str(rest)
        ELSE IF label = S_virtio_input THEN InputConfig_from_str(rest)
        ELSE Err("invalid virtio device label specified", args[1]))

VirtioDeviceConfig_from_str(str) ==
    Let(split(str, ","), LAMBDA args :
    IF args = <<>> THEN Err("no virtio device config found", <<>>) ELSE
    LET rest == join(Tail(args), ",")
        label == args[1]
    IN  IF label = S_virtio_blk THEN BlkConfig_from_str(rest)
        ELSE IF label = S_virtio_rng THEN Ok([kind |-> "Rng"])
        ELSE IF label = S_virtio_serial THEN SerialConfig_from_str(rest)
        ELSE IF label = S_virtio_vsock THEN VsockConfig_from_str(rest)
        ELSE IF label = S_virtio_net THEN NetConfig_from_str(rest)
        ELSE IF label = S_virtio_fs THEN FsConfig_from_str(rest)
        ELSE IF label = S_virtio_gpu THEN GpuConfig_from_str(rest)
        ELSE IF label = S_virtio_input THEN InputConfig_from_str(rest)
        ELSE Err("invalid virtio device label specified", label))

(***************************************************************************)
(* virtio.rs: applying a device configuration to the libkrun context       *)
(***************************************************************************)
\* one call into libkrun: the function, its arguments, what it returned and
\* the index of the device it was made for (0: none)
Call(fn, a, ret, dev) == [fn |-> fn, args |-> a, ret |-> ret, dev |-> dev]

\* the NUL byte, which a C string cannot hold
NUL == "NUL"

\* CString::new
CString_new(bytes) ==
    IF \E k \in 1..Len(bytes) : bytes[k] = NUL THEN Err("NulError", bytes)
    ELSE Ok(bytes)

\* path_to_cstring
path_to_cstring(path) ==
    IF ~CString_new(path).ok
    THEN Err("unable to convert path into NULL-terminated C string", path)
    ELSE CString_new(path)

\* cstring_to_ptr: the empty string becomes the NULL pointer
cstring_to_ptr_never_null(value) == [null |-> FALSE, str |-> value]

cstring_to_ptr(value) ==
    IF value = <<>> THEN [null |-> TRUE, str |-> <<>>]
    ELSE [null |-> FALSE, str |-> value]

is_normal_component(c) == c # <<>> /\ c # <<".">>

\* Path::file_name: the last component, unless it is ".." or there is none
file_name(path) ==
    LET comps == SelectSeq(split(path, "/"), is_normal_component)
    IN  IF comps = <<>> THEN None
        ELSE IF comps[Len(comps)] = <<".", ".">> THEN None
        ELSE Some(comps[Len(comps)])

\* DiskImageFormat as u32
DiskImageFormat_as_u32(format) == IF format = "Raw" THEN 0 ELSE 1

COMPAT_NET_FEATURES == 19587

NET_FLAG_VFKIT == 1

\* the block id handed to krun_add_disk2
block_id_root(path) == S_root

block_id(path) == IF file_name(path).some THEN file_name(path).val ELSE S_disk

\* BlkConfig::krun_ctx_set
BlkConfig_krun_ctx_set(blk, ctx, rets, dev) ==
    LET block_id_cstr == CString_new(block_id(blk.path))
        path_cstr == path_to_cstring(blk.path)
    IN  IF ~block_id_cstr.ok
        THEN [calls |-> <<>>, result |-> Err("can't convert basename to cstring", blk.path)]
        ELSE IF ~path_cstr.ok THEN [calls |-> <<>>, result |-> path_cstr]
        ELSE [calls |-> <<Call("krun_add_disk2",
                               <<ctx, block_id_cstr.val, path_cstr.val,
                                 DiskImageFormat_as_u32(blk.format), FALSE>>,
                               rets[1], dev)>>,
              result |-> IF rets[1] < 0
                         THEN Err("unable to set virtio-blk disk for", blk.path)
                         ELSE Ok(<<>>)]

\* SerialConfig::krun_ctx_set
SerialConfig_krun_ctx_set(serial, ctx, rets, dev) ==
    LET path_cstr == path_to_cstring(serial.log_file_path)
    IN  IF ~path_cstr.ok THEN [calls |-> <<>>, result |-> path_cstr]
        ELSE [calls |-> <<Call("krun_set_console_output", <<ctx, path_cstr.val>>,
                               rets[1], dev)>>,
              result |-> IF rets[1] < 0
                         THEN Err("unable to set krun console output redirection", <<>>)
                         ELSE Ok(<<>>)]

\* VsockConfig::krun_ctx_set
VsockConfig_krun_ctx_set(vsock, ctx, rets, dev) ==
    LET path_cstr == path_to_cstring(vsock.socket_url)
    IN  IF ~path_cstr.ok THEN [calls |-> <<>>, result |-> path_cstr]
        ELSE [calls |-> <<Call("krun_add_vsock_port", <<ctx, vsock.port, path_cstr.val>>,
                               rets[1], dev)>>,
              result |-> IF rets[1] < 0
                         THEN Err("unable to add vsock port", vsock.socket_url)
                         ELSE Ok(<<>>)]

\* NetConfig::krun_ctx_set
NetConfig_krun_ctx_set(net, ctx, rets, dev) ==
    LET features == IF net.socket_config.offloading THEN COMPAT_NET_FEATURES ELSE 0
        path == IF net.socket_config.path.some
                THEN path_to_cstring(net.socket_config.path.val)
                ELSE path_to_cstring(<<>>)
        flags == IF net.socket_type = "UnixGram" /\ net.socket_config.send_vfkit_magic
                 THEN NET_FLAG_VFKIT ELSE 0
        fd == IF net.socket_config.fd.some THEN net.socket_config.fd.val ELSE -1
    IN  IF ~path.ok THEN [calls |-> <<>>, result |-> path] ELSE
    LET add == Call(IF net.socket_type = "UnixGram" THEN "krun_add_net_unixgram"
                    ELSE "krun_add_net_unixstream",
                    <<ctx, cstring_to_ptr(path.val), fd, net.mac_address, features, flags>>,
                    rets[1], dev)
        mac == Call("krun_set_net_mac", <<ctx, net.mac_address>>, rets[2], dev)
    IN  IF rets[1] < 0
        THEN [calls |-> <<add>>,
              result |-> Err("virtio-net unable to add device", net.socket_type)]
        ELSE [calls |-> <<add, mac>>,
              result |-> IF rets[2] < 0
                         THEN Err("unable to set net MAC address", net.mac_address)
                         ELSE Ok(<<>>)]

\* FsConfig::krun_ctx_set
FsConfig_krun_ctx_set(fs, ctx, rets, dev) ==
    LET shared_dir_cstr == path_to_cstring(fs.shared_dir)
        mount_tag_cstr == path_to_cstring(fs.mount_tag)
    IN  IF ~shared_dir_cstr.ok THEN [calls |-> <<>>, result |-> shared_dir_cstr]
        ELSE IF ~mount_tag_cstr.ok THEN [calls |-> <<>>, result |-> mount_tag_cstr]
        ELSE [calls |-> <<Call("krun_add_virtiofs",
                               <<ctx, mount_tag_cstr.val, shared_dir_cstr.val>>,
                               rets[1], dev)>>,
              result |-> IF rets[1] < 0
                         THEN Err("unable to add virtiofs shared directory", fs.mount_tag)
                         ELSE Ok(<<>>)]

\* VirtioDeviceConfig::krun_ctx_set: rets are the returns libkrun gives to the
\* calls the device makes
VirtioDeviceConfig_krun_ctx_set_unsupported(device, ctx, rets, dev) ==
    IF device.kind = "Blk" THEN BlkConfig_krun_ctx_set(device, ctx, rets, dev)
    ELSE IF device.kind = "Vsock" THEN VsockConfig_krun_ctx_set(device, ctx, rets, dev)
    ELSE IF device.kind = "Net" THEN NetConfig_krun_ctx_set(device, ctx, rets, dev)
    ELSE IF device.kind = "Fs" THEN FsConfig_krun_ctx_set(device, ctx, rets, dev)
    ELSE IF device.kind = "Serial" THEN SerialConfig_krun_ctx_set(device, ctx, rets, dev)
    ELSE [calls |-> <<>>, result |-> Err("device is not supported", device.kind)]

VirtioDeviceConfig_krun_ctx_set(device, ctx, rets, dev) ==
    IF device.kind = "Blk" THEN BlkConfig_krun_ctx_set(device, ctx, rets, dev)
    ELSE IF device.kind = "Vsock" THEN VsockConfig_krun_ctx_set(device, ctx, rets, dev)
    ELSE IF device.kind = "Net" THEN NetConfig_krun_ctx_set(device, ctx, rets, dev)
    ELSE IF device.kind = "Fs" THEN FsConfig_krun_ctx_set(device, ctx, rets, dev)
    ELSE IF device.kind = "Serial" THEN SerialConfig_krun_ctx_set(device, ctx, rets, dev)
    ELSE [calls |-> <<>>, result |-> Ok(<<>>)]

(***************************************************************************)
(* status.rs: RestfulUri::from_str                                         *)
(***************************************************************************)
S_localhost == <<"l", "o", "c", "a", "l", "h", "o", "s", "t">>

S_loopback == <<"1", "2", "7", ".", "0", ".", "0", ".", "1">>

starts_with(str, prefix) ==
    Len(str) >= Len(prefix) /\ SubSeq(str, 1, Len(prefix)) = prefix

\* what (.*) matches: the text up to the first line feed
dot_star(str) ==
    IF find(str, "\n") = 0 THEN str ELSE SubSeq(str, 1, find(str, "\n") - 1)

U8_MAX == 255

\* one octet of a dotted IPv4 address: 1 to 3 digits, no leading zero, <= 255
ipv4_octet(str) ==
    IF str = <<>> \/ Len(str) > 3 THEN Err("AddrParseError", str)
    ELSE IF \E k \in 1..Len(str) : ~is_digit(str[k]) THEN Err("AddrParseError", str)
    ELSE IF Len(str) > 1 /\ str[1] = "0" THEN Err("AddrParseError", str)
    ELSE LET r == u32_digits(str, u32(0, 0))
         IN  IF r.val.lo > U8_MAX THEN Err("AddrParseError", str) ELSE Ok(r.val.lo)

\* Ipv4Addr::from_str: four octets separated by '.'
Ipv4Addr_from_str(str) ==
    LET parts == split(str, ".")
    IN  IF Len(parts) # 4 THEN Err("AddrParseError", str)
        ELSE IF \E k \in 1..4 : ~ipv4_octet(parts[k]).ok THEN Err("AddrParseError", str)
        ELSE Ok([k \in 1..4 |-> ipv4_octet(parts[k]).val])

\* u16::from_str
u16_from_str(str) ==
    LET r == u32_from_str(str)
    IN  IF ~r.ok THEN r
        ELSE IF r.val.hi > 0 THEN Err("PosOverflow", str)
        ELSE Ok(r.val.lo)

\* parse_tcp_input
parse_tcp_input(input) ==
    LET parts == split(input, ":")
    IN  IF Len(parts) # 2 THEN Err("restful URI formatted incorrectly", input) ELSE
    LET host == IF parts[1] = S_localhost THEN S_loopback ELSE parts[1]
        ip_addr == Ipv4Addr_from_str(host)
        port == u16_from_str(parts[2])
    IN  IF ~ip_addr.ok THEN Err("restful URI IP address formatted incorrectly", host)
        ELSE IF ~port.ok THEN Err("restful URI port number formatted incorrectly", parts[2])
        ELSE Ok([ip_addr |-> ip_addr.val, port |-> port.val])

RestfulUri_None == [scheme |-> "None", ip_addr |-> <<>>, port |-> 0, path |-> <<>>]

RestfulUri_Tcp(ip_addr, port) ==
    [scheme |-> "Tcp", ip_addr |-> ip_addr, port |-> port, path |-> <<>>]

RestfulUri_Unix(path) == [scheme |-> "Unix", ip_addr |-> <<>>, port |-> 0, path |-> path]

\* RestfulUri::from_str: ^(none|tcp|unix)://(.*)
RestfulUri_from_str(str) ==
    LET scheme == IF starts_with(str, <<"n", "o", "n", "e", ":", "/", "/">>) THEN "none"
                  ELSE IF starts_with(str, <<"t", "c", "p", ":", "/", "/">>) THEN "tcp"
                  ELSE IF starts_with(str, <<"u", "n", "i", "x", ":", "/", "/">>) THEN "unix"
                  ELSE ""
    IN  IF scheme = "" THEN Err("invalid scheme input", str) ELSE
    LET value == dot_star(SubSeq(str, Len(scheme) + 4, Len(str)))
    IN  IF scheme = "tcp"
        THEN LET r == parse_tcp_input(value)
             IN  IF ~r.ok THEN r ELSE Ok(RestfulUri_Tcp(r.val.ip_addr, r.val.port))
        ELSE IF scheme = "unix"
        THEN IF value = <<>> THEN Err("empty unix socket path", str)
             ELSE Ok(RestfulUri_Unix(value))
        ELSE Ok(RestfulUri_None)

(***************************************************************************)
(* The command lines drawn for the run                                     *)
(***************************************************************************)
\* most --device options on one command line
MaxDevices == 3

Spec_blk == <<"v", "i", "r", "t", "i", "o", "-", "b", "l", "k", ",", "p", "a", "t", "h", "=", "/", "a">>

Spec_rng == <<"v", "i", "r", "t", "i", "o", "-", "r", "n", "g">>

Spec_fs == <<"v", "i", "r", "t", "i", "o", "-", "f", "s", ",", "s", "h", "a", "r", "e", "d", "D", "i", "r", "=", "/", "s", ",", "m", "o", "u", "n", "t", "T", "a", "g", "=", "t">>

Spec_blk_no_path == <<"v", "i", "r", "t", "i", "o", "-", "b", "l", "k", ",", "f", "o", "r", "m", "a", "t", "=", "r", "a", "w">>

DeviceSpecs == {Spec_blk, Spec_rng, Spec_fs, Spec_blk_no_path}

RECURSIVE ListsUpTo(_, _)
ListsUpTo(S, n) ==
    IF n = 0 THEN {<<>>}
    ELSE LET shorter == ListsUpTo(S, n - 1)
         IN  shorter \cup {Append(x, e) : x \in {y \in shorter : Len(y) = n - 1}, e \in S}

DeviceLists == ListsUpTo(DeviceSpecs, MaxDevices)

CpuChoices == {0, 1}

RAM_LIMIT_MIB == 61440

MemoryChoices == {0, 2048, RAM_LIMIT_MIB, RAM_LIMIT_MIB + 1}

UriChoices == {None, Some(<<"n", "o", "n", "e", ":", "/", "/">>), Some(<<"t", "c", "p", ":", "/", "/", "l", "o", "c", "a", "l", "h", "o", "s", "t", ":", "8", "0", "8", "0">>),
               Some(<<"u", "n", "i", "x", ":", "/", "/", "/", "s">>), Some(<<"f", "o", "o", "b", "a", "r">>)}

\* a positional disk image, for the command lines that give one
S_disk_image == <<"/", "d">>

\* the --oem-string values given: none, more than 255, one holding a NUL
\* byte, or acceptable ones
OemChoices == {"none", "too many", "nul", "some"}

\* a command line that gives the required options only
BaseLine ==
    [devices |-> <<>>, cpus |-> 1, memory |-> 2048, restful_uri |-> None,
     disk_image |-> None, oem_strings |-> "none", nested |-> FALSE, pidfile |-> FALSE]

\* command lines that vary the devices, the vCPUs and the memory
DeviceLines ==
    {[BaseLine EXCEPT !.devices = d, !.cpus = c, !.memory = m] :
        d \in DeviceLists, c \in CpuChoices, m \in MemoryChoices}

\* command lines that vary the other setup options
OptionLines ==
    {[BaseLine EXCEPT !.devices = d, !.disk_image = di, !.oem_strings = o,
                      !.nested = n, !.pidfile = p] :
        d \in {<<>>, <<Spec_blk>>}, di \in {None, Some(S_disk_image)},
        o \in OemChoices, n \in BOOLEAN, p \in BOOLEAN}

\* command lines that vary the listener's address
ListenerLines ==
    {[BaseLine EXCEPT !.devices = d, !.restful_uri = u, !.pidfile = p] :
        d \in {<<>>, <<Spec_blk>>, <<Spec_blk, Spec_fs>>}, u \in UriChoices, p \in BOOLEAN}

CommandLines == DeviceLines \cup OptionLines \cup ListenerLines

(***************************************************************************)
(* main.rs, context.rs: the main thread                                    *)
(***************************************************************************)
NoArgs ==
    [devices |-> <<>>, cpus |-> 0, memory |-> 0, restful_uri |-> None,
     disk_image |-> None, oem_strings |-> "none", nested |-> FALSE, pidfile |-> FALSE]

NoConn == [read |-> NotRun, sent |-> <<>>, response |-> "", response_ok |-> FALSE,
           shutdown_writes |-> 0]

\* the process as it starts, before the command line is read
\* start() has not been called
NotStarted == [result |-> NotRun, was_running |-> FALSE, spawned |-> 0]

\* Compositor::new: the flag is false and there is no thread
Compositor_new ==
    /\ running = FALSE
    /\ threads = <<>>
    /\ start_result = NotStarted

MainInit ==
    /\ Compositor_new
    /\ pc = "start"
    /\ argv = NoArgs
    /\ ctx_args = NoArgs
    /\ ctx_id = -1
    /\ device_index = 1
    /\ calls = <<>>
    /\ result = NotRun
    /\ pidfile = "not written"
    /\ shutdown_eventfd = -1
    /\ applied = <<>>
    /\ spawned = 0
    /\ listener = "not spawned"
    /\ addr = None
    /\ conns = 0
    /\ conn = NoConn
    /\ shutdown_writes = <<>>

\* no input given to a builder or check, and no call of one made
NoInput == [kind |-> "none"]

NoCall == [fn |-> "none"]

ParseIdle ==
    /\ s = <<>>
    /\ s0 = <<>>
    /\ map = NotRun
    /\ map0 = NotRun
    /\ given = NoInput
    /\ returned = NoCall

Init == MainInit /\ ParseIdle

\* what libkrun may return to a configuration call
Rets == {-1, 0}

\* Args::parse(): every --device and --restful-uri value goes through its
\* FromStr; the first value that fails ends the process with a usage error
Args_parse ==
    /\ pc = "start"
    /\ \E line \in CommandLines :
        LET devices == line.devices
            uri == line.restful_uri
            parsed == [k \in 1..Len(devices) |-> VirtioDeviceConfig_from_str(devices[k])]
            restful == IF uri.some THEN RestfulUri_from_str(uri.val) ELSE Ok(<<>>)
        IN  /\ argv' = line
            /\ IF (\E k \in 1..Len(devices) : ~parsed[k].ok) \/ ~restful.ok
               THEN /\ pc' = "exited"
                    /\ result' = Err("invalid value for argument", <<>>)
                    /\ UNCHANGED ctx_args
               ELSE /\ pc' = "init_log"
                    /\ ctx_args' = [line EXCEPT
                                        !.devices = [k \in 1..Len(devices) |-> parsed[k].val],
                                        !.restful_uri = IF uri.some THEN Some(restful.val)
                                                        ELSE None]
                    /\ UNCHANGED result
    /\ UNCHANGED <<ctx_id, device_index, calls, pidfile, shutdown_eventfd, applied, spawned>>
    /\ UNCHANGED listener_vars
    /\ UNCHANGED parse_vars
    /\ UNCHANGED compositor_vars

\* try_from, lines 99-139: open the log file if one is given, krun_init_log
\* (its arguments are not recorded)
InitLog ==
    /\ pc = "init_log"
    /\ \E open_ok \in BOOLEAN, ret \in Rets :
        IF ~open_ok
        THEN /\ pc' = "exited"
             /\ result' = Err("io error", <<>>)
             /\ UNCHANGED calls
        ELSE /\ calls' = Append(calls, Call("krun_init_log", <<>>, ret, 0))
             /\ IF ret < 0
                THEN pc' = "exited" /\ result' = Err("unable to init libkrun logs", <<>>)
                ELSE pc' = "create_ctx" /\ UNCHANGED result
    /\ UNCHANGED <<argv, ctx_args, ctx_id, device_index, pidfile, shutdown_eventfd,
                   applied, spawned>>
    /\ UNCHANGED listener_vars
    /\ UNCHANGED parse_vars
    /\ UNCHANGED compositor_vars

\* try_from, lines 141-149: krun_create_ctx
CreateCtx ==
    /\ pc = "create_ctx"
    /\ \E ret \in Rets :
        /\ calls' = Append(calls, Call("krun_create_ctx", <<>>, ret, 0))
        /\ IF ret < 0
           THEN /\ pc' = "exited"
                /\ result' = Err("unable to create libkrun context", <<>>)
                /\ UNCHANGED ctx_id
           ELSE /\ pc' = "set_vm_config"
                /\ ctx_id' = ret
                /\ UNCHANGED result
    /\ UNCHANGED <<argv, ctx_args, device_index, pidfile, shutdown_eventfd, applied, spawned>>
    /\ UNCHANGED listener_vars
    /\ UNCHANGED parse_vars
    /\ UNCHANGED compositor_vars

\* the checks made on cpus and memory before krun_set_vm_config
check_vm_config_accepting_all(cpus, memory) == Ok(<<>>)

check_vm_config_no_upper_limit(cpus, memory) ==
    IF cpus = 0 THEN Err("vcpus must be a minimum of 1 (0 is invalid)", <<>>)
    ELSE IF memory = 0 THEN Err("zero MiB RAM inputted (invalid)", <<>>)
    ELSE Ok(<<>>)

check_vm_config(cpus, memory) ==
    IF cpus = 0 THEN Err("vcpus must be a minimum of 1 (0 is invalid)", <<>>)
    ELSE IF memory = 0 THEN Err("zero MiB RAM inputted (invalid)", <<>>)
    ELSE IF memory > RAM_LIMIT_MIB
         THEN Err("requested RAM larger than upper limit of 61440 MiB", <<>>)
    ELSE Ok(<<>>)

\* try_from, lines 151-167: validate cpus and memory, krun_set_vm_config
SetVmConfig ==
    /\ pc = "set_vm_config"
    /\ \E ret \in Rets :
        LET checked == check_vm_config(ctx_args.cpus, ctx_args.memory)
        IN  IF ~checked.ok
            THEN /\ pc' = "exited"
                 /\ result' = checked
                 /\ UNCHANGED calls
            ELSE /\ calls' = Append(calls, Call("krun_set_vm_config",
                                                <<ctx_id, ctx_args.cpus, ctx_args.memory>>,
                                                ret, 0))
                 /\ IF ret < 0
                    THEN /\ pc' = "exited"
                         /\ result' = Err("unable to set krun vCPU/RAM configuration", <<>>)
                    ELSE pc' = "set_gpu_options" /\ UNCHANGED result
    /\ UNCHANGED <<argv, ctx_args, ctx_id, device_index, pidfile, shutdown_eventfd,
                   applied, spawned>>
    /\ UNCHANGED listener_vars
    /\ UNCHANGED parse_vars
    /\ UNCHANGED compositor_vars

VIRGLRENDERER_VENUS == 64

VIRGLRENDERER_NO_VIRGL == 128

MIB == 1048576

IPA_LIMIT_MIB == 63488

\* a byte count kept as whole MiB and remaining bytes
Bytes(mib, rem) == [mib |-> mib, rem |-> rem]

min_bytes(a, b) ==
    IF a.mib < b.mib \/ (a.mib = b.mib /\ a.rem <= b.rem) THEN a ELSE b

\* ((args.memory as u64) / 1024 + 1) * 1024
rounded_mem_down(memory) == (memory \div 1024) * 1024

rounded_mem(memory) == ((memory \div 1024) + 1) * 1024

\* min((63488 - rounded_mem) * 1024 * 1024, sys.total_memory())
vram(memory, total_memory) ==
    min_bytes(Bytes(IPA_LIMIT_MIB - rounded_mem(memory), 0), total_memory)

\* sys.total_memory() of the hosts drawn: 512 MiB + 4 KiB, and 64 GiB
HostMemory == {Bytes(512, 4096), Bytes(65536, 0)}

\* where try_from goes when the loop over args.devices has nothing (more) to do
after_devices(next, n) == IF next > n THEN "smbios" ELSE "devices"

\* try_from, lines 169-177: krun_set_gpu_options2
SetGpuOptions ==
    /\ pc = "set_gpu_options"
    /\ \E ret \in Rets, total_memory \in HostMemory :
        /\ calls' = Append(calls,
                           Call("krun_set_gpu_options2",
                                <<ctx_id, VIRGLRENDERER_VENUS + VIRGLRENDERER_NO_VIRGL,
                                  vram(ctx_args.memory, total_memory)>>,
                                ret, 0))
        /\ IF ret < 0
           THEN /\ pc' = "exited"
                /\ result' = Err("unable to set krun vCPU/RAM configuration", <<>>)
           ELSE pc' = "disk_image" /\ UNCHANGED result
    /\ UNCHANGED <<argv, ctx_args, ctx_id, device_index, pidfile, shutdown_eventfd,
                   applied, spawned>>
    /\ UNCHANGED listener_vars
    /\ UNCHANGED parse_vars
    /\ UNCHANGED compositor_vars

S_gvproxy_sock == <<"/", "t", "m", "p", "/", "g", "v", "p", "r", "o", "x", "y", "-", "k", "r", "u", "n", ".", "s", "o", "c", "k">>

S_default_mac == <<"5", "6", ":", "c", "8", ":", "d", "4", ":", "d", "b", ":", "e", "1", ":", "4", "7">>

\* try_from, lines 179-225: with a disk image, add it as the disk "root", spawn
\* gvproxy and, if that process started, add the default network interface
DiskImage ==
    /\ pc = "disk_image"
    /\ \E opened \in BOOLEAN, image_format \in {"Raw", "Qcow2"}, ret_disk \in Rets,
          gvproxy \in BOOLEAN, ret_net \in Rets :
        LET disk_image == ctx_args.disk_image
            disk == Call("krun_add_disk2",
                         <<ctx_id, S_root, disk_image.val,
                           DiskImageFormat_as_u32(image_format), FALSE>>, ret_disk, 0)
            net == Call("krun_add_net_unixstream",
                        <<ctx_id, S_gvproxy_sock, -1, MacAddress_from_str(S_default_mac).val,
                          0, 0>>, ret_net, 0)
            go_on == /\ pc' = after_devices(1, Len(ctx_args.devices))
                     /\ UNCHANGED result
        IN  IF ~disk_image.some THEN go_on /\ UNCHANGED calls
            ELSE IF ~opened
            THEN /\ pc' = "exited"
                 /\ result' = Err("io error", disk_image.val)
                 /\ UNCHANGED calls
            ELSE IF ret_disk < 0
            THEN /\ pc' = "exited"
                 /\ result' = Err("error configuring disk image", <<>>)
                 /\ calls' = Append(calls, disk)
            ELSE IF ~gvproxy THEN go_on /\ calls' = Append(calls, disk)
            ELSE IF ret_net < 0
            THEN /\ pc' = "exited"
                 /\ result' = Err("virtio-net unable to configure default interface", <<>>)
                 /\ calls' = calls \o <<disk, net>>
            ELSE go_on /\ calls' = calls \o <<disk, net>>
    /\ UNCHANGED <<argv, ctx_args, ctx_id, device_index, pidfile, shutdown_eventfd,
                   applied, spawned>>
    /\ UNCHANGED listener_vars
    /\ UNCHANGED parse_vars
    /\ UNCHANGED compositor_vars

\* for device in &args.devices { device.krun_ctx_set(id)? }: what follows the
\* call made on device k of n
devices_step_ignoring_failure(r, k, n) ==
    [pc |-> after_devices(k + 1, n), device_index |-> k + 1, result |-> NotRun]

devices_step(r, k, n) ==
    IF ~r.ok THEN [pc |-> "exited", device_index |-> k, result |-> r]
    ELSE [pc |-> after_devices(k + 1, n), device_index |-> k + 1, result |-> NotRun]

\* try_from, lines 227-230: apply the next device of args.devices
ApplyDevice ==
    /\ pc = "devices"
    /\ device_index <= Len(ctx_args.devices)
    /\ \E rets \in [1..2 -> Rets] :
        LET r == VirtioDeviceConfig_krun_ctx_set(ctx_args.devices[device_index], ctx_id,
                                                 rets, device_index)
            step == devices_step(r.result, device_index, Len(ctx_args.devices))
        IN  /\ calls' = calls \o r.calls
            /\ applied' = Append(applied, device_index)
            /\ pc' = step.pc
            /\ device_index' = step.device_index
            /\ result' = step.result
    /\ UNCHANGED <<argv, ctx_args, ctx_id, pidfile, shutdown_eventfd, spawned>>
    /\ UNCHANGED listener_vars
    /\ UNCHANGED parse_vars
    /\ UNCHANGED compositor_vars

\* try_from, line 232: set_smbios_oem_strings
SetSmbiosOemStrings ==
    /\ pc = "smbios"
    /\ \E ret \in Rets :
        LET oem_strings == ctx_args.oem_strings IN
        IF oem_strings = "none"
        THEN pc' = "nested" /\ UNCHANGED <<calls, result>>
        ELSE IF oem_strings = "too many"
        THEN /\ pc' = "exited"
             /\ result' = Err("invalid number of SMBIOS OEM strings", <<>>)
             /\ UNCHANGED calls
        ELSE IF oem_strings = "nul"
        THEN /\ pc' = "exited"
             /\ result' = Err("invalid SMBIOS OEM string", <<>>)
             /\ UNCHANGED calls
        ELSE /\ calls' = Append(calls, Call("krun_set_smbios_oem_strings", <<ctx_id>>,
                                            ret, 0))
             /\ IF ret < 0
                THEN pc' = "exited" /\ result' = Err("unable to set SMBIOS OEM Strings", <<>>)
                ELSE pc' = "nested" /\ UNCHANGED result
    /\ UNCHANGED <<argv, ctx_args, ctx_id, device_index, pidfile, shutdown_eventfd,
                   applied, spawned>>
    /\ UNCHANGED listener_vars
    /\ UNCHANGED parse_vars
    /\ UNCHANGED compositor_vars

\* try_from, lines 234-246: with --nested, check for and enable nested
\* virtualization; then the context is ready and main calls run()
NestedVirt ==
    /\ pc = "nested"
    /\ \E supported \in {-1, 0, 1}, ret \in Rets :
        LET nested == ctx_args.nested
            check == Call("krun_check_nested_virt", <<>>, supported, 0)
            set == Call("krun_set_nested_virt", <<ctx_id, nested>>, ret, 0)
        IN  IF ~nested THEN pc' = "run" /\ UNCHANGED <<calls, result>>
            ELSE IF supported = 1
            THEN /\ calls' = calls \o <<check, set>>
                 /\ IF ret < 0
                    THEN /\ pc' = "exited"
                         /\ result' = Err("krun nested virtualization failed to enable", <<>>)
                    ELSE pc' = "run" /\ UNCHANGED result
            ELSE IF supported = 0
            THEN /\ calls' = Append(calls, check)
                 /\ pc' = "run"
                 /\ UNCHANGED result
            ELSE /\ calls' = Append(calls, check)
                 /\ pc' = "exited"
                 /\ result' = Err("unable to check nested virtualization", <<>>)
    /\ UNCHANGED <<argv, ctx_args, ctx_id, device_index, pidfile, shutdown_eventfd,
                   applied, spawned>>
    /\ UNCHANGED listener_vars
    /\ UNCHANGED parse_vars
    /\ UNCHANGED compositor_vars

\* get_shutdown_eventfd: a negative descriptor is a panic
get_shutdown_eventfd_unchecked(fd) == Ok(fd)

get_shutdown_eventfd(fd) ==
    IF fd < 0 THEN Err("panic", "unable to retrieve krun shutdown file descriptor")
    ELSE Ok(fd)

\* run, line 255: obtain the shutdown handle from libkrun
GetShutdownEventfd ==
    /\ pc = "run"
    /\ \E fd \in {-1, 3} :
        /\ calls' = Append(calls, Call("krun_get_shutdown_eventfd", <<ctx_id>>, fd, 0))
        /\ IF ~get_shutdown_eventfd(fd).ok
           THEN /\ pc' = "exited"
                /\ result' = get_shutdown_eventfd(fd)
                /\ UNCHANGED shutdown_eventfd
           ELSE /\ pc' = "spawn"
                /\ shutdown_eventfd' = get_shutdown_eventfd(fd).val
                /\ UNCHANGED result
    /\ UNCHANGED <<argv, ctx_args, ctx_id, device_index, pidfile, applied, spawned>>
    /\ UNCHANGED listener_vars
    /\ UNCHANGED parse_vars
    /\ UNCHANGED compositor_vars

\* uri.as_ref().is_some_and(|u| *u != RestfulUri::None)
wants_listener_for_any_uri(uri) == uri.some

wants_listener(uri) == uri.some /\ uri.val # RestfulUri_None

\* run, lines 256-261: spawn the listener thread if an address asks for one
SpawnListener ==
    /\ pc = "spawn"
    /\ pc' = "pidfile"
    /\ IF wants_listener(ctx_args.restful_uri)
       THEN /\ spawned' = spawned + 1
            /\ listener' = "entered"
            /\ addr' = ctx_args.restful_uri
       ELSE UNCHANGED <<spawned, listener, addr>>
    /\ UNCHANGED <<argv, ctx_args, ctx_id, device_index, calls, result, pidfile,
                   shutdown_eventfd, applied>>
    /\ UNCHANGED <<conns, conn, shutdown_writes>>
    /\ UNCHANGED parse_vars
    /\ UNCHANGED compositor_vars

\* run, lines 267-270: write the pidfile, if --pidfile was given
WritePidfile ==
    /\ pc = "pidfile"
    /\ \E written \in BOOLEAN :
        IF ~ctx_args.pidfile THEN pc' = "start_enter" /\ UNCHANGED <<pidfile, result>>
        ELSE IF written THEN pc' = "start_enter" /\ pidfile' = "written" /\ UNCHANGED result
        ELSE pc' = "exited" /\ result' = Err("io error", <<>>) /\ UNCHANGED pidfile
    /\ UNCHANGED <<argv, ctx_args, ctx_id, device_index, calls, shutdown_eventfd,
                   applied, spawned>>
    /\ UNCHANGED listener_vars
    /\ UNCHANGED parse_vars
    /\ UNCHANGED compositor_vars

\* run, lines 274-279: the VM did not start; the pidfile, if one was written,
\* is removed (remove_file may fail) and the error returned
start_failed_keeping_pidfile(file, removed) ==
    [pidfile |-> file, result |-> Err("unable to begin running krun workload", <<>>)]

start_failed(file, removed) ==
    IF file # "written"
    THEN [pidfile |-> file, result |-> Err("unable to begin running krun workload", <<>>)]
    ELSE IF removed
    THEN [pidfile |-> "removed",
          result |-> Err("unable to begin running krun workload", <<>>)]
    ELSE [pidfile |-> file, result |-> Err("io error", <<>>)]

\* run, lines 273-279: krun_start_enter; when the VM does not start, the
\* pidfile is removed and the error returned
StartEnter ==
    /\ pc = "start_enter"
    /\ \E ret \in Rets, removed \in BOOLEAN :
        /\ calls' = Append(calls, Call("krun_start_enter", <<ctx_id>>, ret, 0))
        /\ IF ret >= 0 THEN pc' = "vm running" /\ UNCHANGED <<pidfile, result>>
           ELSE /\ pc' = "exited"
                /\ pidfile' = start_failed(pidfile, removed).pidfile
                /\ result' = start_failed(pidfile, removed).result
    /\ UNCHANGED <<argv, ctx_args, ctx_id, device_index, shutdown_eventfd, applied, spawned>>
    /\ UNCHANGED listener_vars
    /\ UNCHANGED parse_vars
    /\ UNCHANGED compositor_vars

\* the VM ends (the guest powers off, by itself or after a shutdown request)
\* and the process ends with it
VmExit ==
    /\ pc = "vm running"
    /\ pc' = "exited"
    /\ result' = Ok(<<>>)
    /\ UNCHANGED <<argv, ctx_args, ctx_id, device_index, calls, pidfile, shutdown_eventfd,
                   applied, spawned>>
    /\ UNCHANGED listener_vars
    /\ UNCHANGED parse_vars
    /\ UNCHANGED compositor_vars

(***************************************************************************)
(* status.rs: the listener thread                                          *)
(***************************************************************************)
\* most connections the listener is given
MaxConns == 2

\* size of the read buffer (4096 in the source)
BUF_LEN == 6

S_POST == <<"P", "O", "S", "T">>

\* a byte that is not valid UTF-8, and the character it is replaced by
INVALID_BYTE == "0xFF"

REPLACEMENT_CHARACTER == "U+FFFD"

ZERO_BYTE == "0x00"

\* the requests clients send
Requests == {<<>>, <<"G", "E", "T">>, <<"P", "O", "S", "T">>, <<"x", "P", "O", "S", "T", "x">>, <<"P", "O", "S">>, <<"x", "x", "x", "x", "P", "O", "S", "T">>,
             <<"P", "O", INVALID_BYTE, "S", "T">>}

\* [0u8; 4096] after a read of n bytes of data
read_buf(data, n) ==
    [k \in 1..BUF_LEN |-> IF k <= n THEN data[k] ELSE ZERO_BYTE]

\* String::from_utf8_lossy
from_utf8_lossy(buf) ==
    [k \in 1..Len(buf) |-> IF buf[k] = INVALID_BYTE THEN REPLACEMENT_CHARACTER ELSE buf[k]]

\* str::contains
contains(str, pat) ==
    \E k \in 0..(Len(str) - Len(pat)) : SubSeq(str, k + 1, k + Len(pat)) = pat

\* u64::to_le_bytes
RECURSIVE to_le_bytes(_, _)
to_le_bytes(v, n) ==
    IF n = 0 THEN <<>> ELSE <<v % 256>> \o to_le_bytes(v \div 256, n - 1)

\* whether the request read is a shutdown request
is_shutdown_request_at_start(request) == starts_with(request, S_POST)

is_shutdown_request(request) == contains(request, S_POST)

\* handle_incoming_stream: what is written to the stream and to the shutdown
\* handle for the outcome of the read
handle_incoming_stream(read) ==
    IF ~read.ok THEN [response |-> "", shutdown |-> <<>>]
    ELSE IF is_shutdown_request(from_utf8_lossy(read.val))
    THEN [response |-> "HTTP_STOPPING", shutdown |-> <<to_le_bytes(1, 8)>>]
    ELSE [response |-> "HTTP_RUNNING", shutdown |-> <<>>]

\* status_listener, lines 141-168, up to the accept loop: a bind that fails
\* (or a stale socket that cannot be removed) returns an error, which the
\* spawned closure unwraps
StatusListenerBind ==
    /\ pc # "exited"
    /\ listener = "entered"
    /\ \E removed \in BOOLEAN, bound \in BOOLEAN :
        LET a == IF addr.some THEN addr.val ELSE RestfulUri_None
        IN  listener' = IF a.scheme = "None" THEN "panicked"
                        ELSE IF a.scheme = "Unix" /\ ~removed THEN "panicked"
                        ELSE IF ~bound THEN "panicked"
                        ELSE "awaiting"
    /\ UNCHANGED <<addr, conns, conn, shutdown_writes>>
    /\ UNCHANGED main_vars
    /\ UNCHANGED parse_vars
    /\ UNCHANGED compositor_vars

\* for stream in listener.incoming() { .. stream.unwrap() .. }: what follows
\* an accept
after_accept(accepted) == IF accepted THEN "handling" ELSE "panicked"

\* the next connection is accepted, or the accept fails
ListenerAccept ==
    /\ pc # "exited"
    /\ listener = "awaiting"
    /\ conns < MaxConns
    /\ \E accepted \in BOOLEAN :
        /\ listener' = after_accept(accepted)
        /\ conns' = conns + 1
    /\ UNCHANGED <<addr, conn, shutdown_writes>>
    /\ UNCHANGED main_vars
    /\ UNCHANGED parse_vars
    /\ UNCHANGED compositor_vars

\* handle_incoming_stream on the accepted connection: one read of at most
\* BUF_LEN bytes of what the client sent, then the writes
HandleIncomingStream ==
    /\ pc # "exited"
    /\ listener = "handling"
    /\ \E sent \in Requests, read_ok \in BOOLEAN, n \in 0..BUF_LEN,
          response_ok \in BOOLEAN :
        /\ n <= Len(sent)
        /\ n = 0 => sent = <<>>
        /\ LET read == IF read_ok THEN Ok(read_buf(sent, n)) ELSE Err("io error", <<>>)
               h == handle_incoming_stream(read)
           IN  /\ conn' = [read |-> read, sent |-> sent, response |-> h.response,
                           response_ok |-> h.response # "" /\ response_ok,
                           shutdown_writes |-> Len(h.shutdown)]
               /\ shutdown_writes' = shutdown_writes \o h.shutdown
    /\ listener' = "awaiting"
    /\ UNCHANGED <<addr, conns>>
    /\ UNCHANGED main_vars
    /\ UNCHANGED parse_vars
    /\ UNCHANGED compositor_vars

Next ==
    \/ Args_parse
    \/ InitLog
    \/ CreateCtx
    \/ SetVmConfig
    \/ SetGpuOptions
    \/ DiskImage
    \/ ApplyDevice
    \/ SetSmbiosOemStrings
    \/ NestedVirt
    \/ GetShutdownEventfd
    \/ SpawnListener
    \/ WritePidfile
    \/ StartEnter
    \/ VmExit
    \/ StatusListenerBind
    \/ ListenerAccept
    \/ HandleIncomingStream

Spec == Init /\ [][Next]_vars

(***************************************************************************)
(* The key-value parser applied to drawn argument strings                  *)
(***************************************************************************)
RECURSIVE StringsUpTo(_)
StringsUpTo(n) ==
    IF n = 0 THEN {<<>>}
    ELSE LET shorter == StringsUpTo(n - 1)
         IN  shorter \cup {Append(x, c) : x \in {y \in shorter : Len(y) = n - 1}, c \in ArgChars}

ArgStrings == StringsUpTo(MaxArgLen)

InitParse ==
    /\ s \in ArgStrings
    /\ s0 = s
    /\ map = NotRun
    /\ map0 = NotRun
    /\ given = NoInput
    /\ returned = NoCall
    /\ MainInit

\* the caller hands the string to parse_args
ParseArgs ==
    /\ map = NotRun
    /\ map' = parse_args(s)
    /\ map0' = parse_args(s0)
    /\ UNCHANGED <<s, s0, given, returned>>
    /\ UNCHANGED main_vars
    /\ UNCHANGED listener_vars
    /\ UNCHANGED compositor_vars

\* the same arguments given in another order: tokens i and j exchanged
swap(list, i, j) ==
    [x \in 1..Len(list) |-> IF x = i THEN list[j] ELSE IF x = j THEN list[i] ELSE list[x]]

ParseReordered(i, j) ==
    /\ map # NotRun
    /\ LET list == split(s, ",")
       IN  /\ i \in 1..Len(list)
           /\ j \in 1..Len(list)
           /\ i < j
           /\ s' = join(swap(list, i, j), ",")
           /\ map' = parse_args(s')
    /\ UNCHANGED <<s0, map0, given, returned>>
    /\ UNCHANGED main_vars
    /\ UNCHANGED listener_vars
    /\ UNCHANGED compositor_vars

NextParse ==
    \/ ParseArgs
    \/ \E i, j \in 1..(MaxArgLen + 1) : ParseReordered(i, j)

SpecParse == InitParse /\ [][NextParse]_vars

(***************************************************************************)
(* The argument checks and the device builders applied to drawn inputs     *)
(***************************************************************************)
\* keys and values of the mappings handed to the argument checks
CheckKeys == {<<"a">>, <<"b">>, <<"c">>}

CheckValues == {<<>>, <<"x">>}

\* longest list of required keys drawn
MaxRequired == 2

\* every mapping from some of the keys to the values
CheckMaps == UNION {[K -> CheckValues] : K \in SUBSET CheckKeys}

\* a mapping and a list of required keys
CheckInputs ==
    {[kind |-> "check", args |-> m, required |-> r] :
        m \in CheckMaps, r \in ListsUpTo(CheckKeys, MaxRequired)}

\* check_required_args(&args, label, required): the mapping is borrowed, and
\* is the caller's afterwards
CheckRequiredArgs ==
    /\ given.kind = "check"
    /\ returned = NoCall
    /\ returned' = [fn |-> "check_required_args",
                    result |-> check_required_args(given.args, <<>>, given.required),
                    args |-> given.args]
    /\ UNCHANGED <<s, map, s0, map0, given>>
    /\ UNCHANGED main_vars
    /\ UNCHANGED listener_vars
    /\ UNCHANGED compositor_vars

\* check_unknown_args(args, label): the mapping is moved into the call
CheckUnknownArgs ==
    /\ given.kind = "check"
    /\ returned = NoCall
    /\ returned' = [fn |-> "check_unknown_args",
                    result |-> check_unknown_args(given.args, <<>>)]
    /\ UNCHANGED <<s, map, s0, map0, given>>
    /\ UNCHANGED main_vars
    /\ UNCHANGED listener_vars
    /\ UNCHANGED compositor_vars

\* most tokens after the label of a device spec drawn, and of a virtio-net
\* spec drawn
MaxTokens == 3

MaxNetTokens == 4

\* whether e is an element of list
is_in(e, list) == \E k \in 1..Len(list) : list[k] = e

\* the lists of at most n distinct elements of S
RECURSIVE DistinctLists(_, _)
DistinctLists(S, n) ==
    IF n = 0 THEN {<<>>}
    ELSE LET shorter == DistinctLists(S, n - 1)
             longest == {y \in shorter : Len(y) = n - 1}
         IN  shorter \cup UNION {{Append(x, e) : e \in {e \in S : ~is_in(e, x)}} : x \in longest}

\* the tokens the virtio-blk specs are made of: path=/a, format=raw, format=RAW,
\* format=qcow2, format=QCow2, format=vmdk, format=, format, x=1
BlkTokens ==
    {<<"p", "a", "t", "h", "=", "/", "a">>,
     <<"f", "o", "r", "m", "a", "t", "=", "r", "a", "w">>,
     <<"f", "o", "r", "m", "a", "t", "=", "R", "A", "W">>,
     <<"f", "o", "r", "m", "a", "t", "=", "q", "c", "o", "w", "2">>,
     <<"f", "o", "r", "m", "a", "t", "=", "Q", "C", "o", "w", "2">>,
     <<"f", "o", "r", "m", "a", "t", "=", "v", "m", "d", "k">>,
     <<"f", "o", "r", "m", "a", "t", "=">>,
     <<"f", "o", "r", "m", "a", "t">>,
     <<"x", "=", "1">>}

\* x, x=1
RngTokens ==
    {<<"x">>,
     <<"x", "=", "1">>}

\* logFilePath=/l, x=1
SerialTokens ==
    {<<"l", "o", "g", "F", "i", "l", "e", "P", "a", "t", "h", "=", "/", "l">>,
     <<"x", "=", "1">>}

\* socketURL=/s, listen, x=1, and port= with 0, 4294967295, 4294967296, 65536,
\* 99999999999, +7, -1, 1x and the empty value
VsockTokens ==
    {<<"s", "o", "c", "k", "e", "t", "U", "R", "L", "=", "/", "s">>,
     <<"l", "i", "s", "t", "e", "n">>,
     <<"x", "=", "1">>,
     <<"p", "o", "r", "t", "=", "0">>,
     <<"p", "o", "r", "t", "=", "4", "2", "9", "4", "9", "6", "7", "2", "9", "5">>,
     <<"p", "o", "r", "t", "=", "4", "2", "9", "4", "9", "6", "7", "2", "9", "6">>,
     <<"p", "o", "r", "t", "=", "6", "5", "5", "3", "6">>,
     <<"p", "o", "r", "t", "=", "9", "9", "9", "9", "9", "9", "9", "9", "9", "9", "9">>,
     <<"p", "o", "r", "t", "=", "+", "7">>,
     <<"p", "o", "r", "t", "=", "-", "1">>,
     <<"p", "o", "r", "t", "=", "1", "x">>,
     <<"p", "o", "r", "t", "=">>}

\* sharedDir=/s, mountTag=t, x=1
FsTokens ==
    {<<"s", "h", "a", "r", "e", "d", "D", "i", "r", "=", "/", "s">>,
     <<"m", "o", "u", "n", "t", "T", "a", "g", "=", "t">>,
     <<"x", "=", "1">>}

\* width=800, height=600, x=1
GpuTokens ==
    {<<"w", "i", "d", "t", "h", "=", "8", "0", "0">>,
     <<"h", "e", "i", "g", "h", "t", "=", "6", "0", "0">>,
     <<"x", "=", "1">>}

\* keyboard, pointing, keyboard=1, keyboard=, Keyboard, x and the empty token
InputTokens ==
    {<<"k", "e", "y", "b", "o", "a", "r", "d">>,
     <<"p", "o", "i", "n", "t", "i", "n", "g">>,
     <<"k", "e", "y", "b", "o", "a", "r", "d", "=", "1">>,
     <<"k", "e", "y", "b", "o", "a", "r", "d", "=">>,
     <<"K", "e", "y", "b", "o", "a", "r", "d">>,
     <<"x">>,
     <<>>}

\* mac=00:00:00:00:00:00, unixSocketPath=/p, type=unixgram, type=unixstream,
\* path=/q, fd=4, offloading=on, vfkitMagic=on, vfkitMagic=off, x=1
NetTokens ==
    {<<"m", "a", "c", "=", "0", "0", ":", "0", "0", ":", "0", "0", ":", "0", "0", ":", "0", "0", ":", "0", "0">>,
     <<"u", "n", "i", "x", "S", "o", "c", "k", "e", "t", "P", "a", "t", "h", "=", "/", "p">>,
     <<"t", "y", "p", "e", "=", "u", "n", "i", "x", "g", "r", "a", "m">>,
     <<"t", "y", "p", "e", "=", "u", "n", "i", "x", "s", "t", "r", "e", "a", "m">>,
     <<"p", "a", "t", "h", "=", "/", "q">>,
     <<"f", "d", "=", "4">>,
     <<"o", "f", "f", "l", "o", "a", "d", "i", "n", "g", "=", "o", "n">>,
     <<"v", "f", "k", "i", "t", "M", "a", "g", "i", "c", "=", "o", "n">>,
     <<"v", "f", "k", "i", "t", "M", "a", "g", "i", "c", "=", "o", "f", "f">>,
     <<"x", "=", "1">>}

\* the specs made of a label and at most n distinct tokens of a pool
SpecsOf(label, tokens, n) ==
    {join(<<label>> \o list, ",") : list \in DistinctLists(tokens, n)}

\* labels the dispatcher has no builder for: none, a comma alone follows, other
\* letter case, a prefix, a longer label, a space before the label
OtherLabels ==
    {<<>>,
     <<"V", "i", "r", "t", "i", "o", "-", "b", "l", "k">>,
     <<"V", "I", "R", "T", "I", "O", "-", "R", "N", "G">>,
     <<"v", "i", "r", "t", "i", "o">>,
     <<"v", "i", "r", "t", "i", "o", "-", "b", "l", "k", "x">>,
     <<" ", "v", "i", "r", "t", "i", "o", "-", "r", "n", "g">>,
     <<"v", "i", "r", "t", "i", "o", "-", "i", "n", "p", "u", "t", "=">>}

\* path=/a, keyboard
LabelTokens ==
    {<<"p", "a", "t", "h", "=", "/", "a">>,
     <<"k", "e", "y", "b", "o", "a", "r", "d">>}

LabelSpecs == UNION {SpecsOf(label, LabelTokens, 1) : label \in OtherLabels}

BuildSpecs ==
    LabelSpecs
    \cup SpecsOf(S_virtio_blk, BlkTokens, MaxTokens)
    \cup SpecsOf(S_virtio_rng, RngTokens, MaxTokens)
    \cup SpecsOf(S_virtio_serial, SerialTokens, MaxTokens)
    \cup SpecsOf(S_virtio_vsock, VsockTokens, MaxTokens)
    \cup SpecsOf(S_virtio_fs, FsTokens, MaxTokens)
    \cup SpecsOf(S_virtio_gpu, GpuTokens, MaxTokens)
    \cup SpecsOf(S_virtio_input, InputTokens, MaxTokens)
    \cup SpecsOf(S_virtio_net, NetTokens, MaxNetTokens)

BuildInputs == {[kind |-> "device", str |-> x] : x \in BuildSpecs}

\* what a --restful-uri value may start with: the three schemes, a scheme in
\* capitals, a scheme after another letter, one slash missing, nothing
UriPrefixes ==
    {<<"n", "o", "n", "e", ":", "/", "/">>,
     <<"t", "c", "p", ":", "/", "/">>,
     <<"u", "n", "i", "x", ":", "/", "/">>,
     <<"T", "C", "P", ":", "/", "/">>,
     <<"x", "t", "c", "p", ":", "/", "/">>,
     <<"u", "n", "i", "x", ":", "/">>,
     <<>>}

\* what may follow: nothing, paths, host:port with hosts and ports in and out
\* of range, no or two colons, and values holding a line feed (written ~ here:
\* /s~x, ~, localhost:80~:x)
UriValues ==
    {<<>>,
     <<"/", "s">>,
     <<"f", "o", "o", "b", "a", "r">>,
     <<"l", "o", "c", "a", "l", "h", "o", "s", "t", ":", "8", "0", "8", "0">>,
     <<"1", "2", "7", ".", "0", ".", "0", ".", "1", ":", "8", "0">>,
     <<"l", "o", "c", "a", "l", "h", "o", "s", "t", ":", "6", "5", "5", "3", "5">>,
     <<"l", "o", "c", "a", "l", "h", "o", "s", "t", ":", "6", "5", "5", "3", "6">>,
     <<"l", "o", "c", "a", "l", "h", "o", "s", "t", ":">>,
     <<"l", "o", "c", "a", "l", "h", "o", "s", "t", ":", "+", "7">>,
     <<"l", "o", "c", "a", "l", "h", "o", "s", "t">>,
     <<"l", "o", "c", "a", "l", "h", "o", "s", "t", ":", "8", "0", ":", "1">>,
     <<"2", "5", "6", ".", "0", ".", "0", ".", "1", ":", "8", "0">>,
     <<"0", "1", ".", "0", ".", "0", ".", "1", ":", "8", "0">>,
     <<"L", "o", "c", "a", "l", "h", "o", "s", "t", ":", "8", "0">>,
     <<":", "8", "0">>,
     <<"/", "s", "\n", "x">>,
     <<"\n">>,
     <<"l", "o", "c", "a", "l", "h", "o", "s", "t", ":", "8", "0", "\n", ":", "x">>}

UriInputs == {[kind |-> "uri", str |-> a \o b] : a \in UriPrefixes, b \in UriValues}

\* clap hands the value of --restful-uri to RestfulUri::from_str
ParseUri ==
    /\ given.kind = "uri"
    /\ returned = NoCall
    /\ returned' = [fn |-> "RestfulUri_from_str", result |-> RestfulUri_from_str(given.str)]
    /\ UNCHANGED <<s, map, s0, map0, given>>
    /\ UNCHANGED main_vars
    /\ UNCHANGED listener_vars
    /\ UNCHANGED compositor_vars

\* --memory values around every multiple of 1024 MiB, up to past the limit of
\* RAM plus VRAM
MemorySamples == {m \in 0..(IPA_LIMIT_MIB + 1024) : m % 1024 \in {0, 1, 1023}}

MemoryInputs ==
    {[kind |-> "memory", memory |-> m, total_memory |-> h] :
        m \in MemorySamples, h \in HostMemory}

\* try_from, lines 151-177, for one --memory value: the validation, then the
\* VRAM handed to krun_set_gpu_options2
ComputeVram ==
    /\ given.kind = "memory"
    /\ returned = NoCall
    /\ returned' =
            [fn |-> "vram",
             result |-> IF ~check_vm_config(1, given.memory).ok
                        THEN check_vm_config(1, given.memory)
                        ELSE Ok([rounded_mem |-> rounded_mem(given.memory),
                                 vram |-> vram(given.memory, given.total_memory)])]
    /\ UNCHANGED <<s, map, s0, map0, given>>
    /\ UNCHANGED main_vars
    /\ UNCHANGED listener_vars
    /\ UNCHANGED compositor_vars

InitBuild ==
    /\ given \in CheckInputs \cup BuildInputs \cup UriInputs \cup MemoryInputs
    /\ returned = NoCall
    /\ s = <<>>
    /\ s0 = <<>>
    /\ map = NotRun
    /\ map0 = NotRun
    /\ MainInit

\* clap hands the value of a --device option to VirtioDeviceConfig::from_str
BuildDevice ==
    /\ given.kind = "device"
    /\ returned = NoCall
    /\ returned' = [fn |-> "from_str", result |-> VirtioDeviceConfig_from_str(given.str)]
    /\ UNCHANGED <<s, map, s0, map0, given>>
    /\ UNCHANGED main_vars
    /\ UNCHANGED listener_vars
    /\ UNCHANGED compositor_vars

\* the context a built device is applied to
BuildCtx == 0

\* device.krun_ctx_set(id) on a device that was built
ApplyBuilt ==
    /\ returned.fn = "from_str"
    /\ returned.result.ok
    /\ \E rets \in [1..2 -> Rets] :
        LET r == VirtioDeviceConfig_krun_ctx_set(returned.result.val, BuildCtx, rets, 1)
        IN  returned' = [fn |-> "krun_ctx_set", device |-> returned.result.val,
                         calls |-> r.calls, result |-> r.result]
    /\ UNCHANGED <<s, map, s0, map0, given>>
    /\ UNCHANGED main_vars
    /\ UNCHANGED listener_vars
    /\ UNCHANGED compositor_vars

\* the device that follows the built one in args.devices
FollowingDevice == [kind |-> "Blk", path |-> <<"/", "a">>, format |-> "Raw"]

\* for device in &args.devices { device.krun_ctx_set(id)? }, on the built
\* device followed by one more: the loop goes on to the second device unless
\* the first returned an error
ApplyFollowing ==
    /\ returned.fn = "krun_ctx_set"
    /\ devices_step(returned.result, 1, 2).pc = "devices"
    /\ \E rets \in [1..2 -> Rets] :
        LET r == VirtioDeviceConfig_krun_ctx_set(FollowingDevice, BuildCtx, rets, 2)
        IN  returned' = [fn |-> "devices", device |-> returned.device,
                         calls |-> returned.calls \o r.calls, result |-> r.result]
    /\ UNCHANGED <<s, map, s0, map0, given>>
    /\ UNCHANGED main_vars
    /\ UNCHANGED listener_vars
    /\ UNCHANGED compositor_vars

NextBuild ==
    \/ CheckRequiredArgs
    \/ CheckUnknownArgs
    \/ BuildDevice
    \/ ApplyBuilt
    \/ ApplyFollowing
    \/ ParseUri
    \/ ComputeVram

SpecBuild == InitBuild /\ [][NextBuild]_vars

(***************************************************************************)
(* compositor.rs: Compositor::start, stop and the compositor thread        *)
(***************************************************************************)
\* most compositor threads spawned
MaxStarts == 3

\* the positions of a compositor thread at which it has not returned
LivePositions == {"spawned", "while", "frame"}

\* Compositor::start: with the flag set it returns the error; otherwise it
\* sets the flag, releases the lock and spawns the thread
Compositor_start ==
    /\ Len(threads) < MaxStarts
    /\ IF running
       THEN /\ start_result' = [result |-> Err("Compositor is already running", <<>>),
                                was_running |-> TRUE, spawned |-> 0]
            /\ UNCHANGED <<running, threads>>
       ELSE /\ running' = TRUE
            /\ threads' = Append(threads, "spawned")
            /\ start_result' = [result |-> Ok(<<>>), was_running |-> FALSE, spawned |-> 1]
    /\ UNCHANGED main_vars
    /\ UNCHANGED listener_vars
    /\ UNCHANGED parse_vars

\* Compositor::stop (also what Drop does): clear the flag
Compositor_stop ==
    /\ threads # <<>>
    /\ running' = FALSE
    /\ UNCHANGED <<threads, start_result>>
    /\ UNCHANGED main_vars
    /\ UNCHANGED listener_vars
    /\ UNCHANGED parse_vars

\* compositor_thread, up to the event loop: the window and the image view are
\* created, or the thread returns an error (always, off macOS)
compositor_thread_setup(t) ==
    /\ threads[t] = "spawned"
    /\ \E created \in BOOLEAN :
        threads' = [threads EXCEPT ![t] = IF created THEN "while" ELSE "failed"]
    /\ UNCHANGED <<running, start_result>>
    /\ UNCHANGED main_vars
    /\ UNCHANGED listener_vars
    /\ UNCHANGED parse_vars

\* while *running.lock().unwrap(): enter the next frame, or leave the loop,
\* clean up and return Ok
compositor_thread_while(t) ==
    /\ threads[t] = "while"
    /\ threads' = [threads EXCEPT ![t] = IF running THEN "frame" ELSE "stopped"]
    /\ UNCHANGED <<running, start_result>>
    /\ UNCHANGED main_vars
    /\ UNCHANGED listener_vars
    /\ UNCHANGED parse_vars

\* one frame of the event loop: the NSImage class is missing and the thread
\* returns the error, or the window was closed and the thread clears the flag
\* and leaves the loop, or the loop goes round
compositor_thread_frame(t) ==
    /\ threads[t] = "frame"
    /\ \E outcome \in {"error", "closed", "visible"} :
        /\ threads' = [threads EXCEPT ![t] = IF outcome = "error" THEN "failed"
                                             ELSE IF outcome = "closed" THEN "stopped"
                                             ELSE "while"]
        /\ running' = IF outcome = "closed" THEN FALSE ELSE running
    /\ UNCHANGED start_result
    /\ UNCHANGED main_vars
    /\ UNCHANGED listener_vars
    /\ UNCHANGED parse_vars

NextCompositor ==
    \/ Compositor_start
    \/ Compositor_stop
    \/ \E t \in 1..Len(threads) : compositor_thread_setup(t)
    \/ \E t \in 1..Len(threads) : compositor_thread_while(t)
    \/ \E t \in 1..Len(threads) : compositor_thread_frame(t)

SpecCompositor == Init /\ [][NextCompositor]_vars

(***************************************************************************)
(* What the claims say about an argument string, stated on the string      *)
(* itself (positions of ',' and '='), not through the parser's helpers.    *)
(***************************************************************************)
\* positions that delimit the comma-separated tokens of str
Delims(str) == {0, Len(str) + 1} \cup {i \in 1..Len(str) : str[i] = ","}

NthDelim(str, k) ==
    CHOOSE p \in Delims(str) : Cardinality({q \in Delims(str) : q < p}) = k - 1

TokenCount(str) == Cardinality(Delims(str)) - 1

Token(str, k) == SubSeq(str, NthDelim(str, k) + 1, NthDelim(str, k + 1) - 1)

EqCount(tok) == Cardinality({i \in 1..Len(tok) : tok[i] = "="})

FirstEq(tok) ==
    IF EqCount(tok) = 0 THEN Len(tok) + 1
    ELSE CHOOSE i \in 1..Len(tok) : tok[i] = "=" /\ \A j \in 1..(i - 1) : tok[j] # "="

\* the text before the first '=' and the text after it
KeyOf(tok) == SubSeq(tok, 1, FirstEq(tok) - 1)

ValOf(tok) == SubSeq(tok, FirstEq(tok) + 1, Len(tok))

\* some key occurs in two or more tokens
HasDuplicateKey(str) ==
    \E i, j \in 1..TokenCount(str) :
        i < j /\ KeyOf(Token(str, i)) = KeyOf(Token(str, j))

\* the first token whose key already occurred in an earlier token (0: none)
FirstRepeat(str) ==
    LET R == {j \in 1..TokenCount(str) :
                 \E i \in 1..(j - 1) : KeyOf(Token(str, i)) = KeyOf(Token(str, j))}
    IN  IF R = {} THEN 0 ELSE CHOOSE j \in R : \A k \in R : j <= k

\* the first token with two or more '=' (0: none)
FirstMalformed(str) ==
    LET M == {j \in 1..TokenCount(str) : EqCount(Token(str, j)) >= 2}
    IN  IF M = {} THEN 0 ELSE CHOOSE j \in M : \A k \in M : j <= k

\* the mapping m holds exactly the key/value pairs of the tokens of str
ExactPairs(m, str) ==
    /\ DOMAIN m = {KeyOf(Token(str, k)) : k \in 1..TokenCount(str)}
    /\ \A k \in 1..TokenCount(str) : m[KeyOf(Token(str, k))] = ValOf(Token(str, k))

\* the tokens of str1 are a permutation of the tokens of str2
SameTokens(str1, str2) ==
    /\ TokenCount(str1) = TokenCount(str2)
    /\ \A k \in 1..TokenCount(str1) :
           Cardinality({i \in 1..TokenCount(str1) : Token(str1, i) = Token(str1, k)})
         = Cardinality({i \in 1..TokenCount(str2) : Token(str2, i) = Token(str1, k)})

(***************************************************************************)
(* What the claims say about a run of the program, stated on the command   *)
(* line given and on the calls libkrun received.                           *)
(***************************************************************************)
\* the positions in calls of the calls made for device k of the command line
CallsFor(k) == {x \in 1..Len(calls) : calls[x].dev = k}

\* the positions in calls of the calls to fn
CallsTo(fn) == {x \in 1..Len(calls) : calls[x].fn = fn}

\* the libkrun functions that configure a device of each kind
DeviceFns(kind) ==
    IF kind = "Blk" THEN {"krun_add_disk2"}
    ELSE IF kind = "Fs" THEN {"krun_add_virtiofs"}
    ELSE IF kind = "Serial" THEN {"krun_set_console_output"}
    ELSE IF kind = "Vsock" THEN {"krun_add_vsock_port"}
    ELSE IF kind = "Net"
    THEN {"krun_add_net_unixgram", "krun_add_net_unixstream", "krun_set_net_mac"}
    ELSE {}

\* the error each kind of device returns when libkrun refuses it
DeviceErrs(kind) ==
    IF kind = "Blk" THEN {"unable to set virtio-blk disk for"}
    ELSE IF kind = "Fs" THEN {"unable to add virtiofs shared directory"}
    ELSE {}

\* device k of the command line was refused by libkrun
Refused(k) == \E x \in CallsFor(k) : calls[x].ret < 0

\* the text of a path after its last '/'
Basename(path) ==
    LET P == {0} \cup {q \in 1..Len(path) : path[q] = "/"}
    IN  SubSeq(path, (CHOOSE q \in P : \A r \in P : r <= q) + 1, Len(path))

\* how many of the devices 1..k of the command line are block devices
BlkRank(k) == Cardinality({j \in 1..k : ctx_args.devices[j].kind = "Blk"})

\* the bytes hold the text POST somewhere
HasPost(bytes) ==
    \E k \in 1..(Len(bytes) - 3) :
        /\ bytes[k] = "P"
        /\ bytes[k + 1] = "O"
        /\ bytes[k + 2] = "S"
        /\ bytes[k + 3] = "T"

\* the value 1 as eight little-endian bytes
ONE_LE == <<1, 0, 0, 0, 0, 0, 0, 0>>

\* the command line asks for a listener: --restful-uri with a tcp or unix address
AsksForListener ==
    /\ argv.restful_uri.some
    /\ RestfulUri_from_str(argv.restful_uri.val).ok
    /\ RestfulUri_from_str(argv.restful_uri.val).val.scheme \in {"Tcp", "Unix"}

(***************************************************************************)
(* What the claims say about a device spec, stated on the spec's text      *)
(***************************************************************************)
\* the label of a device spec and the keys of the tokens after it
SpecLabel(str) == Token(str, 1)

SpecTokens(str) == {Token(str, k) : k \in 2..TokenCount(str)}

SpecKeys(str) == {KeyOf(tok) : tok \in SpecTokens(str)}

\* the value given to key in the spec (for a key given once)
SpecValue(str, key) == ValOf(CHOOSE tok \in SpecTokens(str) : KeyOf(tok) = key)

\* the keys each builder recognises
RecognisedKeys(label) ==
    IF label = <<"v", "i", "r", "t", "i", "o", "-", "b", "l", "k">> THEN {<<"p", "a", "t", "h">>, <<"f", "o", "r", "m", "a", "t">>}
    ELSE IF label = <<"v", "i", "r", "t", "i", "o", "-", "s", "e", "r", "i", "a", "l">> THEN {<<"l", "o", "g", "F", "i", "l", "e", "P", "a", "t", "h">>}
    ELSE IF label = <<"v", "i", "r", "t", "i", "o", "-", "v", "s", "o", "c", "k">> THEN {<<"p", "o", "r", "t">>, <<"s", "o", "c", "k", "e", "t", "U", "R", "L">>, <<"l", "i", "s", "t", "e", "n">>}
    ELSE IF label = <<"v", "i", "r", "t", "i", "o", "-", "n", "e", "t">>
    THEN {<<"m", "a", "c">>, <<"u", "n", "i", "x", "S", "o", "c", "k", "e", "t", "P", "a", "t", "h">>, <<"t", "y", "p", "e">>, <<"p", "a", "t", "h">>, <<"f", "d">>, <<"o", "f", "f", "l", "o", "a", "d", "i", "n", "g">>, <<"v", "f", "k", "i", "t", "M", "a", "g", "i", "c">>}
    ELSE IF label = <<"v", "i", "r", "t", "i", "o", "-", "f", "s">> THEN {<<"s", "h", "a", "r", "e", "d", "D", "i", "r">>, <<"m", "o", "u", "n", "t", "T", "a", "g">>}
    ELSE IF label = <<"v", "i", "r", "t", "i", "o", "-", "g", "p", "u">> THEN {<<"w", "i", "d", "t", "h">>, <<"h", "e", "i", "g", "h", "t">>}
    ELSE {}

\* a device spec was handed to its builder, which returned
Built == given.kind = "device" /\ returned.fn = "from_str"

BuiltOk == Built /\ returned.result.ok

(***************************************************************************)
(* C1                                                                      *)
(***************************************************************************)
\* C1: the devices are applied in the order of the command line, each once:
\* the calls libkrun receives for them are in that order and are those of the
\* device's kind. When libkrun refuses a device, that device is the last one
\* applied, no call follows for a later device, and the process ends with
\* that device's error; the devices before it were all applied and accepted.
C1_DevicesInOrder ==
    /\ applied = [k \in 1..Len(applied) |-> k]
    /\ Len(applied) <= Len(ctx_args.devices)
    /\ \A x \in 1..Len(calls) :
        calls[x].dev # 0 =>
            /\ calls[x].dev \in 1..Len(applied)
            /\ calls[x].fn \in DeviceFns(ctx_args.devices[calls[x].dev].kind)
            /\ \A y \in 1..(x - 1) : calls[y].dev <= calls[x].dev
    /\ \A k \in 1..Len(applied) :
        /\ ctx_args.devices[k].kind \in {"Blk", "Fs"} => Cardinality(CallsFor(k)) = 1
        /\ ctx_args.devices[k].kind = "Rng" => CallsFor(k) = {}
        /\ Refused(k) =>
            /\ k = Len(applied)
            /\ pc = "exited"
            /\ ~result.ok
            /\ result.err \in DeviceErrs(ctx_args.devices[k].kind)
            /\ \A j \in 1..(k - 1) : ~Refused(j)
    /\ pc \in {"smbios", "nested", "run", "spawn", "pidfile", "start_enter", "vm running"}
        => Len(applied) = Len(ctx_args.devices)

\* of three devices the first was accepted and the second refused
C1_Witness ==
    /\ Len(ctx_args.devices) = 3
    /\ applied = <<1, 2>>
    /\ CallsFor(1) # {}
    /\ ~Refused(1)
    /\ Refused(2)
    /\ pc = "exited"

C3_RunOnlyAfterSetup ==
    /\ \A x \in CallsTo("krun_start_enter") :
        /\ \A k \in 1..Len(argv.devices) : VirtioDeviceConfig_from_str(argv.devices[k]).ok
        /\ argv.restful_uri.some => RestfulUri_from_str(argv.restful_uri.val).ok
        /\ argv.cpus >= 1
        /\ argv.memory >= 1
        /\ argv.memory <= 61440
        /\ Len(applied) = Len(argv.devices)
        /\ \A y \in 1..(x - 1) : calls[y].ret >= 0
        /\ x = Len(calls)
    /\ (pc = "exited" /\ ~result.ok /\ result.err # "unable to begin running krun workload"
            /\ ~(result.err = "io error" /\ pidfile = "written"))
        => CallsTo("krun_start_enter") = {}

\* libkrun refused the second device and the process ended without the VM
\* having been started
C3_Witness ==
    /\ pc = "exited"
    /\ Refused(2)
    /\ ~result.ok
    /\ CallsTo("krun_start_enter") = {}

(***************************************************************************)
(* C4                                                                      *)
(***************************************************************************)
\* C4 as stated: for every accepted connection, if the bytes the client sent
\* hold POST the listener writes the stopping response and makes one 8-byte
\* little-endian write of 1 to the shutdown handle, and otherwise it writes
\* the running response and makes no write to the shutdown handle.
C4_RequestDecides ==
    conn # NoConn =>
        IF HasPost(conn.sent)
        THEN conn.response = "HTTP_STOPPING" /\ conn.shutdown_writes = 1
        ELSE conn.response = "HTTP_RUNNING" /\ conn.shutdown_writes = 0

\* C4 amended: for every accepted connection the listener reads once, into a
\* zeroed buffer. If the read fails it writes nothing, neither a response nor
\* to the shutdown handle. If the bytes that read returned hold POST it
\* writes the stopping response and makes exactly one 8-byte little-endian
\* write of 1 to the shutdown handle; otherwise it writes the running
\* response and makes no write to the shutdown handle. A failure of the
\* response write changes none of this.
C4_ReadDecides ==
    /\ conn # NoConn =>
        IF ~conn.read.ok
        THEN conn.response = "" /\ conn.shutdown_writes = 0
        ELSE IF HasPost(conn.read.val)
        THEN conn.response = "HTTP_STOPPING" /\ conn.shutdown_writes = 1
        ELSE conn.response = "HTTP_RUNNING" /\ conn.shutdown_writes = 0
    /\ \A k \in 1..Len(shutdown_writes) : shutdown_writes[k] = ONE_LE
    /\ Len(shutdown_writes) <= conns
    /\ conn # NoConn => Len(shutdown_writes) >= conn.shutdown_writes

\* a request with POST in its middle was read whole and answered with the
\* stopping response and one write to the shutdown handle
C4_Witness ==
    /\ conn.read.ok
    /\ conn.sent = <<"x", "P", "O", "S", "T", "x">>
    /\ HasPost(conn.read.val)
    /\ conn.response = "HTTP_STOPPING"
    /\ shutdown_writes = <<ONE_LE>>

(***************************************************************************)
(* C5                                                                      *)
(***************************************************************************)
\* C5 as stated: once bound, the listener never stops by itself: after every
\* connection, one whose accept failed included, it is awaiting the next
\* connection (or handling the one accepted) and has not crashed.
C5_ListenerNeverStops ==
    conns > 0 => listener \in {"awaiting", "handling"}

(***************************************************************************)
(* C6                                                                      *)
(***************************************************************************)
\* C6: the listener thread is spawned at most once; it has been spawned
\* exactly when run() is past the spawn and the command line gave a
\* --restful-uri whose address is tcp or unix; with no --restful-uri or with
\* none:// there is no listener, and status_listener is never entered with
\* the None address.
C6_SpawnedOnceIffAddress ==
    /\ spawned <= 1
    /\ spawned = 1 => AsksForListener
    /\ (pc \in {"pidfile", "start_enter", "vm running"} /\ AsksForListener) => spawned = 1
    /\ pc \in {"start", "init_log", "create_ctx", "set_vm_config", "set_gpu_options",
               "disk_image", "devices", "smbios", "nested", "run", "spawn"} => spawned = 0
    /\ listener = "not spawned" <=> spawned = 0
    /\ listener # "not spawned" =>
        /\ addr.some
        /\ addr.val # RestfulUri_None
        /\ addr.val = RestfulUri_from_str(argv.restful_uri.val).val

\* the one listener, spawned for a unix address, is awaiting connections
C6_Witness ==
    /\ spawned = 1
    /\ listener = "awaiting"
    /\ addr.val.scheme = "Unix"

(***************************************************************************)
(* C7                                                                      *)
(***************************************************************************)
\* C7: when krun_start_enter is called every --device value has been parsed
\* and applied, and every call made for a device precedes it; the listener
\* is spawned only after krun_get_shutdown_eventfd returned the handle it is
\* given, so a write to the shutdown handle happens only when the handle
\* exists and the devices are all configured.
C7_SetupBeforeRun ==
    /\ \A x \in CallsTo("krun_start_enter") :
        /\ Len(ctx_args.devices) = Len(argv.devices)
        /\ Len(applied) = Len(argv.devices)
        /\ \A y \in 1..Len(calls) : calls[y].dev # 0 => y < x
    /\ (spawned > 0 \/ listener # "not spawned" \/ shutdown_writes # <<>>) =>
        /\ shutdown_eventfd >= 0
        /\ \E y \in CallsTo("krun_get_shutdown_eventfd") : calls[y].ret = shutdown_eventfd
        /\ Len(applied) = Len(argv.devices)
        /\ \A k \in 1..Len(applied) : ~Refused(k)

\* with two devices applied and the VM running, a shutdown request was
\* written to the handle
C7_Witness ==
    /\ Len(applied) = 2
    /\ pc = "vm running"
    /\ shutdown_eventfd >= 0
    /\ shutdown_writes # <<>>

(***************************************************************************)
(* C8                                                                      *)
(***************************************************************************)
\* C8 as stated: whenever some key occurs in two or more tokens, the parser
\* fails with the duplicate-key error.
C8_DuplicateKeyError ==
    (map # NotRun /\ HasDuplicateKey(s)) =>
        (~map.ok /\ map.err = "is only expected once")

\* C8 amended: whenever some key occurs in two or more tokens the parser
\* fails and returns no mapping; the failure is the duplicate-key error naming
\* the first repeating token, unless a token with two or more '=' stands at or
\* before it, and then it is the invalid-format error naming that token.
C8_DuplicateKeyFails ==
    (map # NotRun /\ HasDuplicateKey(s)) =>
        LET r == FirstRepeat(s)
            b == FirstMalformed(s)
        IN  /\ ~map.ok
            /\ map.val = <<>>
            /\ IF b # 0 /\ b <= r
               THEN map = Err("invalid argument format", Token(s, b))
               ELSE map = Err("is only expected once", Token(s, r))

\* a duplicate key with two different values was parsed and rejected
C8_Witness ==
    /\ FirstRepeat(s) # 0
    /\ map = Err("is only expected once", Token(s, FirstRepeat(s)))
    /\ \E i \in 1..TokenCount(s) :
           /\ i < FirstRepeat(s)
           /\ KeyOf(Token(s, i)) = KeyOf(Token(s, FirstRepeat(s)))
           /\ ValOf(Token(s, i)) # ValOf(Token(s, FirstRepeat(s)))

C10_SplitAtFirstEq ==
    (map # NotRun /\ ~HasDuplicateKey(s)) =>
        (map.ok /\ ExactPairs(map.val, s))

\* C10 amended: a token with no '=' yields the token as key with the empty
\* value, a token with one '=' yields the text before it as key and the text
\* after it as value, and a token with two or more '=' is rejected with the
\* invalid-format error naming it.
C10_SplitOrReject ==
    (map # NotRun /\ ~HasDuplicateKey(s)) =>
        IF FirstMalformed(s) # 0
        THEN map = Err("invalid argument format", Token(s, FirstMalformed(s)))
        ELSE /\ map.ok
             /\ ExactPairs(map.val, s)

\* a token with two '=' was parsed
C10_Witness ==
    /\ map # NotRun
    /\ ~HasDuplicateKey(s)
    /\ \E k \in 1..TokenCount(s) :
           /\ EqCount(Token(s, k)) = 2
           /\ KeyOf(Token(s, k)) # <<>>
           /\ ValOf(Token(s, k)) # <<"=">>

(***************************************************************************)
(* C11                                                                     *)
(***************************************************************************)
\* C11: check_required_args succeeds exactly when every key of the required
\* list is a key of the mapping; otherwise it fails naming the first key of
\* the list, in the list's order, that the mapping lacks; the mapping is the
\* same after the call.
C11_FirstMissingKey ==
    returned.fn = "check_required_args" =>
        LET missing == {k \in 1..Len(given.required) :
                            given.required[k] \notin DOMAIN given.args}
        IN  /\ returned.result.ok <=> missing = {}
            /\ missing # {} =>
                /\ returned.result.err = "is missing argument"
                /\ returned.result.arg =
                        given.required[CHOOSE k \in missing : \A j \in missing : k <= j]
            /\ returned.args = given.args

\* two required keys were missing and the one listed first was named
C11_Witness ==
    /\ returned.fn = "check_required_args"
    /\ given.required = <<<<"b">>, <<"a">>>>
    /\ DOMAIN given.args = {<<"c">>}
    /\ returned.result = Err("is missing argument", <<"b">>)

(***************************************************************************)
(* C12                                                                     *)
(***************************************************************************)
\* C12: check_unknown_args succeeds exactly when the mapping it is given is
\* empty; otherwise it fails with one error that lists every key=value pair
\* of the mapping. A blk, serial, vsock, net, fs or gpu spec with a token
\* whose key the builder does not recognise is never accepted.
C12_UnknownArgsRejected ==
    /\ returned.fn = "check_unknown_args" =>
        /\ returned.result.ok <=> DOMAIN given.args = {}
        /\ DOMAIN given.args # {} =>
            /\ returned.result.err = "unknown arguments"
            /\ returned.result.arg = {k \o <<"=">> \o given.args[k] : k \in DOMAIN given.args}
    /\ (Built /\ RecognisedKeys(SpecLabel(given.str)) # {}
            /\ \E key \in SpecKeys(given.str) : key \notin RecognisedKeys(SpecLabel(given.str)))
        => ~returned.result.ok

\* a mapping of two pairs was refused with an error listing both
C12_Witness ==
    /\ returned.fn = "check_unknown_args"
    /\ Cardinality(DOMAIN given.args) = 2
    /\ ~returned.result.ok
    /\ Cardinality(returned.result.arg) = 2

(***************************************************************************)
(* C13 .. C16: the virtio-net builder                                      *)
(***************************************************************************)
NetBuilt == Built /\ SpecLabel(given.str) = <<"v", "i", "r", "t", "i", "o", "-", "n", "e", "t">>

NetBuiltOk == NetBuilt /\ returned.result.ok

NetKeys == SpecKeys(given.str)

BuiltSocket == returned.result.val.socket_config

\* C13: a virtio-net spec that gives both unixSocketPath and type is
\* rejected, wherever the two tokens stand and whatever else is given.
C13_TypeAndLegacyRejected ==
    (NetBuilt /\ <<"u", "n", "i", "x", "S", "o", "c", "k", "e", "t", "P", "a", "t", "h">> \in NetKeys /\ <<"t", "y", "p", "e">> \in NetKeys)
        => ~returned.result.ok

\* type came first, unixSocketPath after a valid mac, and the builder said
\* the two are mutually exclusive
C13_Witness ==
    /\ NetBuilt
    /\ given.str = <<"v", "i", "r", "t", "i", "o", "-", "n", "e", "t", ",", "t", "y", "p", "e", "=", "u", "n", "i", "x", "g", "r", "a", "m", ",", "m", "a", "c", "=", "0", "0", ":", "0", "0", ":", "0", "0", ":", "0", "0", ":", "0", "0", ":", "0", "0", ",", "u", "n", "i", "x", "S", "o", "c", "k", "e", "t", "P", "a", "t", "h", "=", "/", "p">>
    /\ returned.result =
            Err("virtio-net type and unixSocketPath are mutually exclusive", <<>>)

\* C14: a built Net configuration has at most one of path and fd; a spec in
\* type mode that gives both path and fd is not built; a spec built in
\* legacy mode has its path set to the unixSocketPath value and no fd.
C14_PathOrFd ==
    /\ NetBuiltOk => ~(BuiltSocket.path.some /\ BuiltSocket.fd.some)
    /\ (NetBuilt /\ {<<"t", "y", "p", "e">>, <<"p", "a", "t", "h">>, <<"f", "d">>} \subseteq NetKeys) => ~returned.result.ok
    /\ (NetBuiltOk /\ <<"u", "n", "i", "x", "S", "o", "c", "k", "e", "t", "P", "a", "t", "h">> \in NetKeys) =>
            /\ BuiltSocket.path = Some(SpecValue(given.str, <<"u", "n", "i", "x", "S", "o", "c", "k", "e", "t", "P", "a", "t", "h">>))
            /\ BuiltSocket.fd = None

\* type mode with a path and an fd, refused for that reason
C14_Witness ==
    /\ NetBuilt
    /\ given.str = <<"v", "i", "r", "t", "i", "o", "-", "n", "e", "t", ",", "m", "a", "c", "=", "0", "0", ":", "0", "0", ":", "0", "0", ":", "0", "0", ":", "0", "0", ":", "0", "0", ",", "t", "y", "p", "e", "=", "u", "n", "i", "x", "g", "r", "a", "m", ",", "p", "a", "t", "h", "=", "/", "q", ",", "f", "d", "=", "4">>
    /\ returned.result = Err("virtio-net path and fd are mutually exclusive", <<>>)

\* C15: with type=unixstream a vfkitMagic token, on or off, makes the build
\* fail; a built UnixStream configuration has send_vfkit_magic false, and
\* applying it calls krun_add_net_unixstream with flags 0.
C15_NoMagicOnStream ==
    /\ (NetBuilt /\ <<"t", "y", "p", "e", "=", "u", "n", "i", "x", "s", "t", "r", "e", "a", "m">> \in SpecTokens(given.str) /\ <<"v", "f", "k", "i", "t", "M", "a", "g", "i", "c">> \in NetKeys)
            => ~returned.result.ok
    /\ (NetBuiltOk /\ returned.result.val.socket_type = "UnixStream")
            => ~BuiltSocket.send_vfkit_magic
    /\ (returned.fn = "krun_ctx_set" /\ returned.device.kind = "Net"
            /\ returned.device.socket_type = "UnixStream")
            => /\ returned.calls # <<>>
               /\ returned.calls[1].fn = "krun_add_net_unixstream"
               /\ returned.calls[1].args[6] = 0
               /\ \A k \in 1..Len(returned.calls) :
                        returned.calls[k].fn # "krun_add_net_unixgram"

\* a UnixStream configuration was built and handed to the backend
C15_Witness ==
    /\ returned.fn = "krun_ctx_set"
    /\ given.str = <<"v", "i", "r", "t", "i", "o", "-", "n", "e", "t", ",", "m", "a", "c", "=", "0", "0", ":", "0", "0", ":", "0", "0", ":", "0", "0", ":", "0", "0", ":", "0", "0", ",", "t", "y", "p", "e", "=", "u", "n", "i", "x", "s", "t", "r", "e", "a", "m", ",", "p", "a", "t", "h", "=", "/", "q", ",", "o", "f", "f", "l", "o", "a", "d", "i", "n", "g", "=", "o", "n">>
    /\ returned.device.socket_type = "UnixStream"
    /\ returned.calls[1].fn = "krun_add_net_unixstream"
    /\ returned.calls[1].args[5] = COMPAT_NET_FEATURES
    /\ returned.calls[1].args[6] = 0

\* C16: built in type mode, offloading and send_vfkit_magic are false unless
\* their keys are given, and path and fd are None unless theirs are; built in
\* legacy mode, the configuration is UnixGram with the given path, no fd,
\* offloading true and send_vfkit_magic true.
C16_Defaults ==
    /\ (NetBuiltOk /\ <<"t", "y", "p", "e">> \in NetKeys) =>
        /\ <<"o", "f", "f", "l", "o", "a", "d", "i", "n", "g">> \notin NetKeys => ~BuiltSocket.offloading
        /\ <<"v", "f", "k", "i", "t", "M", "a", "g", "i", "c">> \notin NetKeys => ~BuiltSocket.send_vfkit_magic
        /\ BuiltSocket.path = IF <<"p", "a", "t", "h">> \in NetKeys
                              THEN Some(SpecValue(given.str, <<"p", "a", "t", "h">>)) ELSE None
        /\ BuiltSocket.fd.some <=> <<"f", "d">> \in NetKeys
    /\ (NetBuiltOk /\ <<"t", "y", "p", "e">> \notin NetKeys) =>
        /\ <<"u", "n", "i", "x", "S", "o", "c", "k", "e", "t", "P", "a", "t", "h">> \in NetKeys
        /\ returned.result.val.socket_type = "UnixGram"
        /\ BuiltSocket = [path |-> Some(SpecValue(given.str, <<"u", "n", "i", "x", "S", "o", "c", "k", "e", "t", "P", "a", "t", "h">>)),
                          fd |-> None, offloading |-> TRUE, send_vfkit_magic |-> TRUE]

\* type mode with only an fd: every other field kept its default
C16_Witness ==
    /\ NetBuiltOk
    /\ given.str = <<"v", "i", "r", "t", "i", "o", "-", "n", "e", "t", ",", "t", "y", "p", "e", "=", "u", "n", "i", "x", "g", "r", "a", "m", ",", "f", "d", "=", "4", ",", "m", "a", "c", "=", "0", "0", ":", "0", "0", ":", "0", "0", ":", "0", "0", ":", "0", "0", ":", "0", "0">>
    /\ BuiltSocket = [path |-> None, fd |-> Some(4),
                      offloading |-> FALSE, send_vfkit_magic |-> FALSE]

(***************************************************************************)
(* C17: the virtio-blk builder                                             *)
(***************************************************************************)
BlkBuilt == Built /\ SpecLabel(given.str) = <<"v", "i", "r", "t", "i", "o", "-", "b", "l", "k">>

BlkKeys == SpecKeys(given.str)

\* a letter and its other case
CasePairs ==
    {{"r", "R"}, {"a", "A"}, {"w", "W"}, {"q", "Q"}, {"c", "C"}, {"o", "O"}}

\* a and b are the same text up to the case of their letters
SameIgnoringCase(a, b) ==
    /\ Len(a) = Len(b)
    /\ \A k \in 1..Len(a) : a[k] = b[k] \/ {a[k], b[k]} \in CasePairs

FormatIs(name) ==
    <<"f", "o", "r", "m", "a", "t">> \in BlkKeys /\ SameIgnoringCase(SpecValue(given.str, <<"f", "o", "r", "m", "a", "t">>), name)

\* every token of the spec has a key of its own, one the builder recognises
BlkWellFormed ==
    /\ Cardinality(SpecKeys(given.str)) = TokenCount(given.str) - 1
    /\ \A tok \in SpecTokens(given.str) : EqCount(tok) <= 1
    /\ BlkKeys \subseteq RecognisedKeys(<<"v", "i", "r", "t", "i", "o", "-", "b", "l", "k">>)
    /\ <<"p", "a", "t", "h">> \in BlkKeys

\* C17: a built block device has format Raw exactly when the spec had no
\* format key or its value was raw in any letter case, and Qcow2 exactly when
\* the value was qcow2 in any letter case; any other format value makes the
\* build fail; a well-formed spec whose format is absent, raw or qcow2 is
\* built; the built path is the path value as given.
C17_BlkFormat ==
    /\ (BlkBuilt /\ returned.result.ok) =>
        /\ returned.result.val.kind = "Blk"
        /\ returned.result.val.format = "Raw" <=> (<<"f", "o", "r", "m", "a", "t">> \notin BlkKeys \/ FormatIs(<<"r", "a", "w">>))
        /\ returned.result.val.format = "Qcow2" <=> FormatIs(<<"q", "c", "o", "w", "2">>)
        /\ returned.result.val.path = SpecValue(given.str, <<"p", "a", "t", "h">>)
    /\ (BlkBuilt /\ <<"f", "o", "r", "m", "a", "t">> \in BlkKeys /\ ~FormatIs(<<"r", "a", "w">>) /\ ~FormatIs(<<"q", "c", "o", "w", "2">>))
        => ~returned.result.ok
    /\ (BlkBuilt /\ BlkWellFormed
            /\ (<<"f", "o", "r", "m", "a", "t">> \notin BlkKeys \/ FormatIs(<<"r", "a", "w">>) \/ FormatIs(<<"q", "c", "o", "w", "2">>)))
        => returned.result.ok

\* qcow2 in mixed case was taken as Qcow2
C17_Witness ==
    /\ BlkBuilt
    /\ given.str = <<"v", "i", "r", "t", "i", "o", "-", "b", "l", "k", ",", "f", "o", "r", "m", "a", "t", "=", "Q", "C", "o", "w", "2", ",", "p", "a", "t", "h", "=", "/", "a">>
    /\ returned.result = Ok([kind |-> "Blk", path |-> <<"/", "a">>, format |-> "Qcow2"])

(***************************************************************************)
(* C18: virtio-rng                                                         *)
(***************************************************************************)
\* C18: a device spec with the label virtio-rng followed by any key or
\* key=value token is rejected; only the bare spec virtio-rng builds Rng.
C18_RngTakesNoArguments ==
    (Built /\ SpecLabel(given.str) = <<"v", "i", "r", "t", "i", "o", "-", "r", "n", "g">>) =>
        (returned.result.ok <=> given.str = <<"v", "i", "r", "t", "i", "o", "-", "r", "n", "g">>)

(***************************************************************************)
(* C19: the vsock port                                                     *)
(***************************************************************************)
VsockBuilt == Built /\ SpecLabel(given.str) = <<"v", "i", "r", "t", "i", "o", "-", "v", "s", "o", "c", "k">>

\* the spec gives port once and, besides it, only a socketURL and at most a
\* bare listen
VsockWellFormed ==
    /\ Cardinality(SpecKeys(given.str)) = TokenCount(given.str) - 1
    /\ {<<"p", "o", "r", "t">>, <<"s", "o", "c", "k", "e", "t", "U", "R", "L">>} \subseteq SpecKeys(given.str)
    /\ \A tok \in SpecTokens(given.str) :
            KeyOf(tok) # <<"p", "o", "r", "t">> => tok \in {<<"s", "o", "c", "k", "e", "t", "U", "R", "L", "=", "/", "s">>, <<"l", "i", "s", "t", "e", "n">>}

PortText == SpecValue(given.str, <<"p", "o", "r", "t">>)

DecimalDigits == <<"0", "1", "2", "3", "4", "5", "6", "7", "8", "9">>

IsDecimal(str) ==
    str # <<>> /\ \A k \in 1..Len(str) : \E n \in 1..10 : DecimalDigits[n] = str[k]

DigitValue(c) == (CHOOSE n \in 1..10 : DecimalDigits[n] = c) - 1

RECURSIVE StripZeros(_)
StripZeros(str) ==
    IF Len(str) > 1 /\ Head(str) = "0" THEN StripZeros(Tail(str)) ELSE str

\* a <= b for decimal numerals without leading zeros
NumeralLeq(a, b) ==
    \/ Len(a) < Len(b)
    \/ /\ Len(a) = Len(b)
       /\ \/ a = b
          \/ \E k \in 1..Len(a) :
                /\ \A j \in 1..(k - 1) : a[j] = b[j]
                /\ DigitValue(a[k]) < DigitValue(b[k])

U32_MAX_TEXT == <<"4", "2", "9", "4", "9", "6", "7", "2", "9", "5">>

InU32Range(str) == IsDecimal(str) /\ NumeralLeq(StripZeros(str), U32_MAX_TEXT)

\* long division of a decimal numeral by 65536: quotient and remainder
RECURSIVE DivMod65536(_, _, _)
DivMod65536(str, quot, rem) ==
    IF str = <<>> THEN [hi |-> quot, lo |-> rem]
    ELSE LET cur == rem * 10 + DigitValue(Head(str))
         IN  DivMod65536(Tail(str), quot * 10 + (cur \div 65536), cur % 65536)

\* the port text without the one '+' that may lead it
Unsigned(str) == IF str # <<>> /\ Head(str) = "+" THEN Tail(str) ELSE str

\* C19 as stated: a well-formed vsock spec is built exactly when its port is
\* a numeral of decimal digits whose value is at most 4294967295.
C19_PortDecimalInRange ==
    (VsockBuilt /\ VsockWellFormed) => (returned.result.ok <=> InU32Range(PortText))

\* C19: a well-formed vsock spec is built exactly when its port, after one
\* optional leading '+', is a numeral of decimal digits whose value is at most
\* 4294967295; 4294967296 and larger or non-numeric ports fail with the
\* invalid-port error; the built port is the numeral's value, neither wrapped
\* nor truncated.
C19_PortOptionalPlusInRange ==
    /\ (VsockBuilt /\ VsockWellFormed) =>
            (returned.result.ok <=> InU32Range(Unsigned(PortText)))
    /\ (VsockBuilt /\ VsockWellFormed /\ ~InU32Range(Unsigned(PortText))) =>
            /\ returned.result.err = "port argument invalid"
            /\ returned.result.arg = PortText
    /\ (VsockBuilt /\ returned.result.ok) =>
            /\ InU32Range(Unsigned(PortText))
            /\ returned.result.val.port = DivMod65536(Unsigned(PortText), 0, 0)

\* the largest port was built with its value and the next one was not
C19_Witness ==
    /\ VsockBuilt
    /\ given.str = <<"v", "i", "r", "t", "i", "o", "-", "v", "s", "o", "c", "k", ",", "p", "o", "r", "t", "=", "4", "2", "9", "4", "9", "6", "7", "2", "9", "5", ",", "s", "o", "c", "k", "e", "t", "U", "R", "L", "=", "/", "s">>
    /\ returned.result.ok
    /\ returned.result.val.port = [hi |-> 65535, lo |-> 65535]

(***************************************************************************)
(* C20: the virtio-input builder                                           *)
(***************************************************************************)
InputBuilt == Built /\ SpecLabel(given.str) = <<"v", "i", "r", "t", "i", "o", "-", "i", "n", "p", "u", "t">>

\* C20 as stated: a virtio-input spec is built exactly when what follows the
\* label is the single bare flag keyboard or pointing.
C20_SingleBareFlag ==
    InputBuilt =>
        (returned.result.ok <=>
            given.str \in {<<"v", "i", "r", "t", "i", "o", "-", "i", "n", "p", "u", "t", ",", "k", "e", "y", "b", "o", "a", "r", "d">>, <<"v", "i", "r", "t", "i", "o", "-", "i", "n", "p", "u", "t", ",", "p", "o", "i", "n", "t", "i", "n", "g">>})

\* C20: a virtio-input spec is built exactly when one token follows the
\* label and that token is keyboard or pointing, bare or followed by '=' and
\* nothing more; it yields Keyboard or Pointing respectively. No token, two
\* or more tokens, a flag with a non-empty value and any other key are
\* rejected.
C20_SingleFlagNoValue ==
    InputBuilt =>
        /\ returned.result.ok <=>
                /\ TokenCount(given.str) = 2
                /\ Token(given.str, 2) \in {<<"k", "e", "y", "b", "o", "a", "r", "d">>, <<"k", "e", "y", "b", "o", "a", "r", "d", "=">>, <<"p", "o", "i", "n", "t", "i", "n", "g">>, <<"p", "o", "i", "n", "t", "i", "n", "g", "=">>}
        /\ returned.result.ok =>
                returned.result.val =
                    [kind |-> "Input",
                     input |-> IF KeyOf(Token(given.str, 2)) = <<"k", "e", "y", "b", "o", "a", "r", "d">>
                               THEN "Keyboard" ELSE "Pointing"]
        /\ (TokenCount(given.str) = 2 /\ ValOf(Token(given.str, 2)) # <<>>
                /\ EqCount(Token(given.str, 2)) = 1)
            => returned.result.err = "unexpected value for virtio-input argument"
        /\ TokenCount(given.str) > 2 => ~returned.result.ok
        /\ TokenCount(given.str) = 1 => ~returned.result.ok

\* the flag with a value attached was refused for that value
C20_Witness ==
    /\ InputBuilt
    /\ given.str = <<"v", "i", "r", "t", "i", "o", "-", "i", "n", "p", "u", "t", ",", "k", "e", "y", "b", "o", "a", "r", "d", "=", "1">>
    /\ returned.result = Err("unexpected value for virtio-input argument", <<"k", "e", "y", "b", "o", "a", "r", "d">>)

(***************************************************************************)
(* C21, C22: the device dispatcher                                         *)
(***************************************************************************)
\* the variant each label stands for
KindOfLabel(label) ==
    IF label = <<"v", "i", "r", "t", "i", "o", "-", "b", "l", "k">> THEN "Blk"
    ELSE IF label = <<"v", "i", "r", "t", "i", "o", "-", "r", "n", "g">> THEN "Rng"
    ELSE IF label = <<"v", "i", "r", "t", "i", "o", "-", "s", "e", "r", "i", "a", "l">> THEN "Serial"
    ELSE IF label = <<"v", "i", "r", "t", "i", "o", "-", "v", "s", "o", "c", "k">> THEN "Vsock"
    ELSE IF label = <<"v", "i", "r", "t", "i", "o", "-", "n", "e", "t">> THEN "Net"
    ELSE IF label = <<"v", "i", "r", "t", "i", "o", "-", "f", "s">> THEN "Fs"
    ELSE IF label = <<"v", "i", "r", "t", "i", "o", "-", "g", "p", "u">> THEN "Gpu"
    ELSE IF label = <<"v", "i", "r", "t", "i", "o", "-", "i", "n", "p", "u", "t">> THEN "Input"
    ELSE "none"

\* C21: the text before the first comma selects the builder only when it is,
\* letter for letter, one of the eight labels; any other label fails with the
\* invalid-label error naming that label; a spec with one of the eight labels
\* never gets the invalid-label error, and what is built is the variant of
\* its label.
C21_ExactLabel ==
    Built =>
        /\ KindOfLabel(SpecLabel(given.str)) = "none" =>
                returned.result =
                    Err("invalid virtio device label specified", SpecLabel(given.str))
        /\ KindOfLabel(SpecLabel(given.str)) # "none" =>
                returned.result.err # "invalid virtio device label specified"
        /\ returned.result.ok =>
                returned.result.val.kind = KindOfLabel(SpecLabel(given.str))

\* a label in another letter case, with a valid argument, was refused by name
C21_Witness ==
    /\ Built
    /\ given.str = <<"V", "i", "r", "t", "i", "o", "-", "b", "l", "k", ",", "p", "a", "t", "h", "=", "/", "a">>
    /\ returned.result = Err("invalid virtio device label specified", <<"V", "i", "r", "t", "i", "o", "-", "b", "l", "k">>)

\* C22: parsing the empty device spec fails with the error "no virtio device
\* config found", not with the invalid-label error.
C22_EmptySpecError ==
    (Built /\ given.str = <<>>) =>
        returned.result = Err("no virtio device config found", <<>>)

(***************************************************************************)
(* C23: RestfulUri::from_str                                               *)
(***************************************************************************)
UriParsed == given.kind = "uri" /\ returned.fn = "RestfulUri_from_str"

\* the string begins with scheme://
HasScheme(str, scheme) ==
    /\ Len(str) >= Len(scheme) + 3
    /\ SubSeq(str, 1, Len(scheme) + 3) = scheme \o <<":", "/", "/">>

\* everything after scheme://
UriValue(str, scheme) == SubSeq(str, Len(scheme) + 4, Len(str))

Colons(str) == {k \in 1..Len(str) : str[k] = ":"}

HostOf(value) == SubSeq(value, 1, (CHOOSE k \in Colons(value) : TRUE) - 1)

PortOf(value) == SubSeq(value, (CHOOSE k \in Colons(value) : TRUE) + 1, Len(value))

\* C23: a string that does not begin with tcp://, unix:// or none:// fails
\* with "invalid scheme input"; none://value yields None for any value;
\* unix://value yields Unix(value) and fails with "empty unix socket path"
\* when value is empty; tcp://value fails with "restful URI formatted
\* incorrectly" unless value holds exactly one ':', and when it is accepted
\* the result is Tcp(ip, port) with host localhost read as 127.0.0.1 and a
\* port in 0..65535.
C23_UriParser ==
    UriParsed =>
        /\ (~HasScheme(given.str, <<"t", "c", "p">>) /\ ~HasScheme(given.str, <<"u", "n", "i", "x">>)
                /\ ~HasScheme(given.str, <<"n", "o", "n", "e">>))
            => (~returned.result.ok /\ returned.result.err = "invalid scheme input")
        /\ HasScheme(given.str, <<"n", "o", "n", "e">>) =>
                (returned.result.ok /\ returned.result.val.scheme = "None")
        /\ HasScheme(given.str, <<"u", "n", "i", "x">>) =>
                IF UriValue(given.str, <<"u", "n", "i", "x">>) = <<>>
                THEN ~returned.result.ok /\ returned.result.err = "empty unix socket path"
                ELSE /\ returned.result.ok
                     /\ returned.result.val.scheme = "Unix"
                     /\ returned.result.val.path = UriValue(given.str, <<"u", "n", "i", "x">>)
        /\ HasScheme(given.str, <<"t", "c", "p">>) =>
                LET value == UriValue(given.str, <<"t", "c", "p">>)
                IN  /\ Cardinality(Colons(value)) # 1 =>
                            /\ ~returned.result.ok
                            /\ returned.result.err = "restful URI formatted incorrectly"
                    /\ returned.result.ok =>
                            /\ returned.result.val.scheme = "Tcp"
                            /\ returned.result.val.port \in 0..65535
                            /\ HostOf(value) = <<"l", "o", "c", "a", "l", "h", "o", "s", "t">> =>
                                    returned.result.val.ip_addr = <<127, 0, 0, 1>>

(***************************************************************************)
(* C24: devices without a backend call                                     *)
(***************************************************************************)
NoBackendKinds == {"Rng", "Gpu", "Input"}

\* C24: applying a built Rng, Gpu or Input configuration returns Ok and makes
\* no libkrun call; the loop over the devices goes on to the device after
\* it, and after that device the only calls made are that device's own.
C24_NoBackendCall ==
    /\ (returned.fn = "krun_ctx_set" /\ returned.device.kind \in NoBackendKinds) =>
            /\ returned.result = Ok(<<>>)
            /\ returned.calls = <<>>
            /\ devices_step(returned.result, 1, 2).pc = "devices"
            /\ devices_step(returned.result, 1, 2).device_index = 2
    /\ (returned.fn = "devices" /\ returned.device.kind \in NoBackendKinds) =>
            /\ Len(returned.calls) = 1
            /\ returned.calls[1].fn = "krun_add_disk2"
            /\ returned.calls[1].dev = 2

\* a GPU device was applied without a call and the block device after it was
\* then passed to libkrun
C24_Witness ==
    /\ returned.fn = "devices"
    /\ given.str = <<"v", "i", "r", "t", "i", "o", "-", "g", "p", "u", ",", "w", "i", "d", "t", "h", "=", "8", "0", "0", ",", "h", "e", "i", "g", "h", "t", "=", "6", "0", "0">>
    /\ returned.device.kind = "Gpu"
    /\ Len(returned.calls) = 1
    /\ returned.calls[1].dev = 2
    /\ returned.result.ok

(***************************************************************************)
(* C25: the pidfile                                                        *)
(***************************************************************************)
\* krun_start_enter was called and returned an error
StartFailed ==
    \E x \in CallsTo("krun_start_enter") : calls[x].ret < 0

\* every setup step succeeded and run() is about to start the VM or has
\* called krun_start_enter
SetupDone ==
    /\ Len(applied) = Len(argv.devices)
    /\ \A k \in 1..Len(applied) : ~Refused(k)
    /\ \A y \in 1..Len(calls) : calls[y].fn # "krun_start_enter" => calls[y].ret >= 0
    /\ \/ pc = "start_enter" /\ CallsTo("krun_start_enter") = {}
       \/ CallsTo("krun_start_enter") = {Len(calls)}

\* C25 as stated: the pidfile exists only once all VM and device
\* configuration has succeeded, from just before the VM run call; when the
\* run call fails to start the VM the pidfile is removed before the error is
\* returned, so no pidfile remains for a VM that failed setup or failed to
\* start.
C25_PidfileNeverRemains ==
    /\ pidfile = "written" => SetupDone
    /\ StartFailed => pidfile # "written"

\* C25: the pidfile exists only once all VM and device configuration has
\* succeeded, from just before the VM run call, and it has been written when
\* the VM run call is made with --pidfile given; when the run call fails to
\* start the VM, removing the pidfile is attempted before the error is
\* returned: after the start error was returned no pidfile remains, and a
\* pidfile remains for a VM that failed to start only when its removal
\* failed, in which case the removal's error is returned instead.
C25_PidfileRemovedOrRemovalError ==
    /\ pidfile = "written" => (SetupDone /\ ctx_args.pidfile)
    /\ (CallsTo("krun_start_enter") # {} /\ ctx_args.pidfile) => pidfile # "not written"
    /\ pidfile = "removed" => (StartFailed /\ pc = "exited")
    /\ (StartFailed /\ result = Err("unable to begin running krun workload", <<>>))
            => pidfile # "written"
    /\ (StartFailed /\ pidfile = "written") => (pc = "exited" /\ result = Err("io error", <<>>))

\* the VM did not start and the pidfile that had been written was removed
C25_Witness ==
    /\ pc = "exited"
    /\ StartFailed
    /\ pidfile = "removed"
    /\ result = Err("unable to begin running krun workload", <<>>)

(***************************************************************************)
(* C26: cpus and memory are validated before any configuration call        *)
(***************************************************************************)
\* the command line asks for no vCPU, no memory or more than 61440 MiB
BadVmConfig == ctx_args.cpus = 0 \/ ctx_args.memory = 0 \/ ctx_args.memory > 61440

\* try_from has got past the validation of cpus and memory, or has ended
PastVmConfig ==
    ctx_id >= 0 /\ pc \notin {"start", "init_log", "create_ctx", "set_vm_config"}

\* C26: krun_set_vm_config is called only with cpus >= 1 and
\* 1 <= memory <= 61440, the values of the command line; with cpus = 0,
\* memory = 0 or memory > 61440 setup fails before krun_set_vm_config,
\* before krun_set_gpu_options2 and before any device is applied: the only
\* calls made are krun_init_log and krun_create_ctx.
C26_ValidatedBeforeCalls ==
    /\ \A x \in CallsTo("krun_set_vm_config") :
        /\ calls[x].args[2] >= 1
        /\ calls[x].args[3] >= 1
        /\ calls[x].args[3] <= 61440
        /\ calls[x].args[2] = argv.cpus
        /\ calls[x].args[3] = argv.memory
    /\ (ctx_args.cpus = 0 \/ ctx_args.memory = 0 \/ ctx_args.memory > 61440) =>
        /\ CallsTo("krun_set_vm_config") = {}
        /\ CallsTo("krun_set_gpu_options2") = {}
        /\ applied = <<>>
        /\ \A x \in 1..Len(calls) : calls[x].fn \in {"krun_init_log", "krun_create_ctx"}
    /\ (BadVmConfig /\ PastVmConfig) =>
        /\ pc = "exited"
        /\ ~result.ok
        /\ result.err \in {"vcpus must be a minimum of 1 (0 is invalid)",
                           "zero MiB RAM inputted (invalid)",
                           "requested RAM larger than upper limit of 61440 MiB"}

\* 61441 MiB was asked for, with devices: setup ended with the RAM error
\* after krun_create_ctx, with nothing configured and no device applied
C26_Witness ==
    /\ pc = "exited"
    /\ ctx_args.cpus = 1
    /\ Len(ctx_args.devices) >= 1
    /\ ctx_args.memory = 61441
    /\ result = Err("requested RAM larger than upper limit of 61440 MiB", <<>>)
    /\ calls[Len(calls)].fn = "krun_create_ctx"
    /\ applied = <<>>

(***************************************************************************)
(* C27: the VRAM computation                                               *)
(***************************************************************************)
VramComputed == given.kind = "memory" /\ returned.fn = "vram"

\* whole MiB that a byte count takes up
MibUp(bytes) == bytes.mib + (IF bytes.rem > 0 THEN 1 ELSE 0)

\* C27: a memory size m is accepted exactly when 1 <= m <= 61440; for every
\* accepted m the memory rounded up is the next multiple of 1024 strictly
\* above m and at most 63488, so 63488 minus it does not underflow; the VRAM
\* is the smaller of that difference in bytes and the host's memory, and
\* m plus the VRAM is at most 63488 MiB.
C27_VramWithinLimit ==
    VramComputed =>
        /\ returned.result.ok <=> (given.memory >= 1 /\ given.memory <= 61440)
        /\ returned.result.ok =>
            LET r == returned.result.val.rounded_mem
                v == returned.result.val.vram
            IN  /\ r > given.memory
                /\ r - given.memory <= 1024
                /\ r % 1024 = 0
                /\ r <= 63488
                /\ v.mib >= 0
                /\ v.rem >= 0
                /\ v \in {[mib |-> 63488 - r, rem |-> 0], given.total_memory}
                /\ MibUp(v) <= 63488 - r \/ v = [mib |-> 63488 - r, rem |-> 0]
                /\ MibUp(v) <= MibUp(given.total_memory)
                /\ given.memory + MibUp(v) <= 63488

\* the largest accepted memory on a host with more memory than the limit:
\* 1024 MiB of VRAM
C27_Witness ==
    /\ VramComputed
    /\ given.memory = 61440
    /\ given.total_memory = [mib |-> 65536, rem |-> 0]
    /\ returned.result = Ok([rounded_mem |-> 62464, vram |-> [mib |-> 1024, rem |-> 0]])

(***************************************************************************)
(* C30: virtio-net in type mode with neither path nor fd                   *)
(***************************************************************************)
\* the spec gives a mac and a type, each once, at most offloading=on besides,
\* and neither path nor fd
TypeOnlySpec ==
    /\ Cardinality(SpecTokens(given.str)) = TokenCount(given.str) - 1
    /\ {<<"m", "a", "c">>, <<"t", "y", "p", "e">>} \subseteq NetKeys
    /\ \/ SpecTokens(given.str) \subseteq
                {<<"m", "a", "c", "=", "0", "0", ":", "0", "0", ":", "0", "0", ":", "0", "0", ":", "0", "0", ":", "0", "0">>, <<"t", "y", "p", "e", "=", "u", "n", "i", "x", "g", "r", "a", "m">>, <<"o", "f", "f", "l", "o", "a", "d", "i", "n", "g", "=", "o", "n">>}
       \/ SpecTokens(given.str) \subseteq
                {<<"m", "a", "c", "=", "0", "0", ":", "0", "0", ":", "0", "0", ":", "0", "0", ":", "0", "0", ":", "0", "0">>, <<"t", "y", "p", "e", "=", "u", "n", "i", "x", "s", "t", "r", "e", "a", "m">>, <<"o", "f", "f", "l", "o", "a", "d", "i", "n", "g", "=", "o", "n">>}

\* C30: a virtio-net spec with type=unixgram or type=unixstream and neither
\* path nor fd is built, with path None and fd None; applying a Net
\* configuration without path and fd passes the null pointer as socket path
\* and -1 as fd to krun_add_net_unixgram or krun_add_net_unixstream.
C30_TypeWithoutPathOrFd ==
    /\ (NetBuilt /\ TypeOnlySpec) =>
            /\ returned.result.ok
            /\ returned.result.val.kind = "Net"
            /\ BuiltSocket.path = None
            /\ BuiltSocket.fd = None
            /\ returned.result.val.socket_type =
                    (IF <<"t", "y", "p", "e", "=", "u", "n", "i", "x", "g", "r", "a", "m">> \in SpecTokens(given.str)
                     THEN "UnixGram" ELSE "UnixStream")
    /\ (returned.fn = "krun_ctx_set" /\ returned.device.kind = "Net"
            /\ ~returned.device.socket_config.path.some
            /\ ~returned.device.socket_config.fd.some) =>
            /\ returned.calls # <<>>
            /\ returned.calls[1].fn =
                    (IF returned.device.socket_type = "UnixGram"
                     THEN "krun_add_net_unixgram" ELSE "krun_add_net_unixstream")
            /\ returned.calls[1].args[2].null
            /\ returned.calls[1].args[3] = -1

\* type=unixgram alone with a mac was built and handed to the backend with
\* the null path and fd -1
C30_Witness ==
    /\ returned.fn = "krun_ctx_set"
    /\ given.str = <<"v", "i", "r", "t", "i", "o", "-", "n", "e", "t", ",", "m", "a", "c", "=", "0", "0", ":", "0", "0", ":", "0", "0", ":", "0", "0", ":", "0", "0", ":", "0", "0", ",", "t", "y", "p", "e", "=", "u", "n", "i", "x", "g", "r", "a", "m">>
    /\ returned.device.socket_config =
            [path |-> None, fd |-> None, offloading |-> FALSE, send_vfkit_magic |-> FALSE]
    /\ returned.calls[1].fn = "krun_add_net_unixgram"
    /\ returned.calls[1].args[2].null
    /\ returned.calls[1].args[3] = -1

(***************************************************************************)
(* C28, C29: the compositor                                                *)
(***************************************************************************)
\* the compositor threads that are in the event loop
InEventLoop == {t \in 1..Len(threads) : threads[t] \in {"while", "frame"}}

\* C28: at most one compositor thread is in its event loop at any time; a
\* start() that found the running flag set failed with "Compositor is
\* already running" and spawned no thread, and no other start() failed.
C28_OneEventLoop ==
    /\ Cardinality(InEventLoop) <= 1
    /\ start_result.was_running <=>
            start_result.result = Err("Compositor is already running", <<>>)
    /\ start_result.was_running => start_result.spawned = 0

\* C29: a new Compositor is not running, and when every compositor thread
\* that was spawned has returned (the window was closed, stop() was called or
\* the thread returned an error) the running flag is false, so that the next
\* start() is accepted.
C29_FlagTracksThread ==
    /\ start_result = NotStarted => ~running
    /\ (\A t \in 1..Len(threads) : threads[t] \notin LivePositions) => ~running

====
